---- MODULE Spec2Model ----
(***************************************************************************)
(* The local backtest engine of SystematicTrader: the POST handler that    *)
(* walks the generated price series of every selected stock, evaluates the *)
(* enabled BUY and SELL rules bar by bar, keeps one position per stock and *)
(* one shared cash balance, samples the portfolio value, liquidates what   *)
(* is still open at the end and derives the metrics of the result.         *)
(*                                                                         *)
(* Numbers are exact: prices, volumes, quantities and cash are integers    *)
(* and every percentage the code compares is a quotient num/den kept as    *)
(* the pair, compared by cross-multiplication.  The two-decimal results    *)
(* (percentReturn, maxDrawdown) are integers counting hundredths.          *)
(* Array indices are those of the code (0-based); At reads a sequence at   *)
(* a 0-based index.                                                        *)
(***************************************************************************)
EXTENDS Integers, Sequences, FiniteSets, TLC

VARIABLES
    stocks,             \* config.stocks
    rules,              \* config.rules
    initialCapital,     \* config.initialCapital
    generated,          \* what generatePriceData returns for each stock
    pc,                 \* position of the handler
    buyRules,           \* enabled rules with decision BUY, in request order
    sellRules,          \* enabled rules with decision SELL, in request order
    trades,             \* the trade log
    cash,
    positions,          \* open positions, in insertion order of their keys
    portfolioValues,
    timestamps,
    stockPriceData,
    maxDataLength,
    i,                  \* bar index of the outer loop
    stockIdx,           \* 0-based index into stocks of the inner loop
    positionPnLPercent, \* the local computed at the top of an iteration
    closeIdx,           \* 0-based index into Object.entries(positions)
    response,           \* the JSON response
    proxyPc,            \* position of the proxy route's handler
    forwarded,          \* the bodies the proxy route has posted to the backend
    proxyResponse,      \* the JSON response of the proxy route
    minInterval,        \* the interval the series are generated at, in minutes
    selectedStocks,     \* Home: the selected stocks
    customStock,        \* StockSelector: the text of the custom ticker input
    pageRules,          \* Home: the rules
    now,                \* Date.now(), as the number of rules added so far
    simpleRuleType,     \* RuleBuilder
    pythonRuleType,     \* RuleBuilder
    shortWindow,        \* RuleBuilder
    longWindow,         \* RuleBuilder
    shortInput,         \* NumberInput of the short window: inputValue
    longInput,          \* NumberInput of the long window: inputValue
    edits,              \* the number of edits of the window inputs so far
    isLoading,          \* Home
    pageResults,        \* Home: results
    error,              \* Home
    activeTab,          \* Home
    pending             \* the fetches of /api/backtest that have not settled

vars == <<stocks, rules, initialCapital, generated, pc, buyRules, sellRules,
          trades, cash, positions, portfolioValues, timestamps,
          stockPriceData, maxDataLength, i, stockIdx, positionPnLPercent,
          closeIdx, response, proxyPc, forwarded, proxyResponse,
          minInterval, selectedStocks, customStock, pageRules, now,
          simpleRuleType, pythonRuleType, shortWindow, longWindow,
          shortInput, longInput, edits, isLoading, pageResults, error,
          activeTab, pending>>

\* the state of the proxy route
proxy == <<proxyPc, forwarded, proxyResponse>>

\* the state of the stock selector
selector == <<selectedStocks, customStock>>

\* the state of the rule builder's window inputs
windows == <<shortWindow, longWindow, shortInput, longInput, edits>>

\* the rule types selected in the rule builder
ruleTypes == <<simpleRuleType, pythonRuleType>>

\* the state of a run started from the page
run == <<isLoading, pageResults, error, activeTab, pending>>

\* the state of the page
page == <<selector, pageRules, now, windows, ruleTypes, run>>

config == <<stocks, rules, initialCapital, generated>>

-----------------------------------------------------------------------------
(* Bounds of the model *)

\* longest generated series, in bars
MaxBars == 3

\* longest of the series on which the sampling is followed, in bars
MaxSampledBars == 400

-----------------------------------------------------------------------------
(* Helpers *)

Max(a, b) == IF a >= b THEN a ELSE b

Min(a, b) == IF a <= b THEN a ELSE b

At(seq, idx) == seq[idx + 1]

Range(seq) == {seq[k] : k \in 1..Len(seq)}

\* sequences of length n over the set S
SeqsOfLen(S, n) == [1..n -> S]

\* parseFloat((num / den * 100).toFixed(2)), in hundredths; den > 0
RoundHundredths(num, den) ==
    IF num >= 0
    THEN (2 * num * 10000 + den) \div (2 * den)
    ELSE -((2 * (-num) * 10000 + den) \div (2 * den))

NoResponse == [status |-> 0]

StartDate == "startDate"

EndDate == "endDate"

BarTimestamp(j) == "bar-" \o ToString(j)

-----------------------------------------------------------------------------
(* The requests the model runs *)

StockA == "AAPL"

StockB == "MSFT"

Rule(name, decision, changeType, changePercent, quantity, enabled) ==
    [name |-> name, decision |-> decision, changeType |-> changeType,
     changePercent |-> changePercent, quantity |-> quantity,
     enabled |-> enabled]

\* what reading a property the rule does not have gives
Undefined == "undefined"

\* a rule of the trading_rules module as the rule builder makes it: it has
\* pythonRuleType and params, and neither changeType nor changePercent
PythonRule(name, decision, pythonType, params, quantity, enabled) ==
    [name |-> name, decision |-> decision, changeType |-> Undefined,
     changePercent |-> Undefined, pythonRuleType |-> pythonType,
     params |-> params, quantity |-> quantity, enabled |-> enabled]

\* the rules a request is composed of, in the order they appear in it
RulePool == <<
    Rule("BuyBig", "BUY", "price_decrease", 3, 11, TRUE),
    Rule("BuyDip", "BUY", "price_decrease", 3, 10, TRUE),
    Rule("BuyVol", "BUY", "volume_increase", 20, 5, TRUE),
    Rule("BuyOff", "BUY", "price_increase", 3, 5, FALSE),
    Rule("TakeProfit", "SELL", "price_increase", 2, 10, TRUE),
    Rule("StopLoss", "SELL", "price_decrease", 3, 10, TRUE),
    Rule("SellVol", "SELL", "volume_increase", 20, 1, TRUE) >>

RECURSIVE Pick(_, _, _)
\* the members of pool whose index is in keep, in the order of pool
Pick(pool, keep, k) ==
    IF k > Len(pool) THEN <<>>
    ELSE IF k \in keep THEN <<pool[k]>> \o Pick(pool, keep, k + 1)
    ELSE Pick(pool, keep, k + 1)

RuleLists == {Pick(RulePool, keep, 1) : keep \in SUBSET (1..Len(RulePool))}

Capitals == {970}

Prices == {97, 100}

Volumes == {100000, 120000}

Bar(j, price, volume) ==
    [timestamp |-> BarTimestamp(j), price |-> price, volume |-> volume]

\* every series of n bars with a price of Prices and a volume of Volumes
SeriesOfLen(n) ==
    {[k \in 1..n |-> Bar(k - 1, ps[k], vs[k])] :
        ps \in SeqsOfLen(Prices, n), vs \in SeqsOfLen(Volumes, n)}

\* series in which a price drop comes with a volume rise
CoupledBars == {<<100, 100000>>, <<97, 120000>>}

CoupledSeriesOfLen(n) ==
    {[k \in 1..n |-> Bar(k - 1, bs[k][1], bs[k][2])] :
        bs \in SeqsOfLen(CoupledBars, n)}

-----------------------------------------------------------------------------
(* generatePriceData and the percentage tests *)

\* src: generatePriceData(stock, startDate, endDate, minInterval); the
\* series depends on the stock alone for given dates and interval
generatePriceData(stock) == generated[stock]

\* ChangeAtLeast with the boundary left out: > where the code has >=
ChangeAtLeastStrict(cur, prev, percent) == (cur - prev) * 100 > percent * prev

\* ((cur - prev) / prev) * 100 >= percent
ChangeAtLeast(cur, prev, percent) == (cur - prev) * 100 >= percent * prev

\* ChangeAtMost with the boundary left out: < where the code has <=
ChangeAtMostStrict(cur, prev, percent) == (cur - prev) * 100 < (-percent) * prev

\* ((cur - prev) / prev) * 100 <= -percent
ChangeAtMost(cur, prev, percent) == (cur - prev) * 100 <= (-percent) * prev

\* the switch of the BUY loop
BuyTriggered(rule, current, previous) ==
    CASE rule.changeType = "price_increase" ->
            ChangeAtLeast(current.price, previous.price, rule.changePercent)
      [] rule.changeType = "price_decrease" ->
            ChangeAtMost(current.price, previous.price, rule.changePercent)
      [] rule.changeType = "volume_increase" ->
            ChangeAtLeast(current.volume, previous.volume, rule.changePercent)
      [] rule.changeType = "volume_decrease" ->
            ChangeAtMost(current.volume, previous.volume, rule.changePercent)
      [] OTHER -> FALSE

\* positionPnLPercent >= percent, positionPnLPercent being pnl.num / pnl.den
PnLAtLeast(pnl, percent) == pnl.num * 100 >= percent * pnl.den

PnLAtMost(pnl, percent) == pnl.num * 100 <= (-percent) * pnl.den

\* SellTriggered with the price rules on the change from the previous bar,
\* as in the BUY loop
SellTriggeredOnBarChange(rule, current, previous, pnl) ==
    BuyTriggered(rule, current, previous)

\* the switch of the SELL loop
SellTriggered(rule, current, previous, pnl) ==
    CASE rule.changeType = "price_increase" -> PnLAtLeast(pnl, rule.changePercent)
      [] rule.changeType = "price_decrease" -> PnLAtMost(pnl, rule.changePercent)
      [] rule.changeType = "volume_increase" ->
            ChangeAtLeast(current.volume, previous.volume, rule.changePercent)
      [] rule.changeType = "volume_decrease" ->
            ChangeAtMost(current.volume, previous.volume, rule.changePercent)
      [] OTHER -> FALSE

-----------------------------------------------------------------------------
(* positions: a JavaScript object keyed by stock, kept as the sequence of  *)
(* its entries in insertion order                                          *)

HasPosition(ps, stock) == \E k \in 1..Len(ps) : ps[k].stock = stock

PositionOf(ps, stock) == ps[CHOOSE k \in 1..Len(ps) : ps[k].stock = stock]

SetPosition(ps, entry) ==
    IF HasPosition(ps, entry.stock)
    THEN [k \in 1..Len(ps) |->
            IF ps[k].stock = entry.stock THEN entry ELSE ps[k]]
    ELSE Append(ps, entry)

\* DeletePosition without the delete: the entry stays
DeletePositionKeeps(ps, stock) == ps

DeletePosition(ps, stock) == SelectSeq(ps, LAMBDA p : p.stock # stock)

-----------------------------------------------------------------------------
(* Init: a request has arrived *)

\* one stock, every series of at most MaxBars bars
InitSingle ==
    /\ stocks = <<StockA>>
    /\ \E n \in 0..MaxBars : \E s \in SeriesOfLen(n) :
          generated = [x \in {StockA} |-> s]

\* two stocks; all series of a request have the same timestamps
InitPair ==
    /\ stocks = <<StockA, StockB>>
    /\ \E n \in 0..MaxBars :
          \E sa \in CoupledSeriesOfLen(n), sb \in CoupledSeriesOfLen(n) :
             generated = [x \in {StockA, StockB} |-> IF x = StockA THEN sa ELSE sb]

\* no stock selected
InitNone ==
    /\ stocks = <<>>
    /\ generated = <<>>

\* null, and a string beside it: the values of results and error are
\* records, which compare with one another
Null == [null |-> TRUE]

String(text) == [string |-> text]

\* trading.ts lines 108-116, StockSelector.tsx line 21, RuleBuilder.tsx
\* lines 124-130 and number-input.tsx line 31: the page as it is first
\* rendered
InitPage ==
    /\ selectedStocks = <<"AAPL">>
    /\ customStock = <<>>
    /\ pageRules = <<>>
    /\ now = 0
    /\ simpleRuleType = "buy_the_dip"
    /\ pythonRuleType = "mean_reversal"
    /\ shortWindow = 5
    /\ longWindow = 20
    /\ shortInput = <<"5">>
    /\ longInput = <<"2", "0">>
    /\ edits = 0
    /\ isLoading = FALSE
    /\ pageResults = Null
    /\ error = Null
    /\ activeTab = "configure"
    /\ pending = 0

InitLocals ==
    /\ InitPage
    /\ minInterval = 0
    /\ pc = "validate"
    /\ buyRules = <<>>
    /\ sellRules = <<>>
    /\ trades = <<>>
    /\ cash = 0
    /\ positions = <<>>
    /\ portfolioValues = <<>>
    /\ timestamps = <<>>
    /\ stockPriceData = <<>>
    /\ maxDataLength = 0
    /\ i = 0
    /\ stockIdx = 0
    /\ positionPnLPercent = [num |-> 0, den |-> 1]
    /\ closeIdx = 0
    /\ response = NoResponse
    /\ proxyPc = "validate"
    /\ forwarded = <<>>
    /\ proxyResponse = NoResponse

\* the request of the worked scenario: one stock, capital 100000, BUY on a
\* 3% drop (10 shares), SELL on a 2% gain, prices 100, 97, 101, 95, 99
ScenarioStock == "XYZ"

ScenarioPrices == <<100, 97, 101, 95, 99>>

ScenarioRules == <<
    Rule("Buy the dip", "BUY", "price_decrease", 3, 10, TRUE),
    Rule("Take the gain", "SELL", "price_increase", 2, 10, TRUE) >>

IsScenario ==
    /\ stocks = <<ScenarioStock>>
    /\ rules = ScenarioRules
    /\ initialCapital = 100000
    /\ generated = [x \in {ScenarioStock} |->
                        [k \in 1..Len(ScenarioPrices) |->
                            Bar(k - 1, ScenarioPrices[k], 100000)]]

InitScenario == IsScenario /\ InitLocals

InitBounded ==
    /\ InitSingle \/ InitPair \/ InitNone
    /\ rules \in RuleLists
    /\ initialCapital \in Capitals
    /\ InitLocals

\* a price that falls and then recovers in small steps, so that the gain
\* since a purchase and the change since the previous bar come apart
DriftPrices == <<100, 97, 98, 99>>

IsDrift ==
    /\ stocks = <<StockA>>
    /\ generated = [x \in {StockA} |->
                        [k \in 1..Len(DriftPrices) |->
                            Bar(k - 1, DriftPrices[k], 100000)]]

InitDrift ==
    /\ IsDrift
    /\ rules \in RuleLists
    /\ initialCapital \in Capitals
    /\ InitLocals

Init == InitBounded \/ InitScenario \/ InitDrift

\* the rules of the requests with a mean reversal entry
IndicatorPool == <<
    PythonRule("Mean Reversal", "BUY", "mean_reversal",
               [shortWindow |-> 2, longWindow |-> 3], 5, TRUE),
    Rule("BuyVol", "BUY", "volume_increase", 20, 5, TRUE),
    Rule("BuyOff", "BUY", "price_increase", 3, 5, FALSE),
    Rule("TakeProfit", "SELL", "price_increase", 2, 10, TRUE) >>

IndicatorRuleLists ==
    {Pick(IndicatorPool, keep, 1) : keep \in SUBSET (1..Len(IndicatorPool))}

InitIndicator ==
    /\ InitSingle \/ InitNone
    /\ rules \in IndicatorRuleLists
    /\ initialCapital \in Capitals
    /\ InitLocals

\* the requests made of the second, the fourth and the fifth rule of the
\* pool, the empty list and the list of the disabled rule among them
RouteRuleLists == {Pick(RulePool, keep, 1) : keep \in SUBSET {2, 4, 5}}

\* one request sent to both routes
InitRoutes ==
    /\ InitSingle \/ InitNone
    /\ rules \in RouteRuleLists
    /\ initialCapital \in Capitals
    /\ InitLocals

\* the timeframes of the type, and one the map of getIntervalMinutes does
\* not have
Timeframes == {"1Min", "5Min", "15Min", "30Min", "1H", "4H", "1D", "1W", "2H"}

\* the rule with a timeframe
WithTimeframe(rule, timeframe) ==
    [f \in DOMAIN rule \cup {"timeframe"} |->
        IF f = "timeframe" THEN timeframe ELSE rule[f]]

\* the requests made of an entry and an exit with a timeframe each, and of a
\* disabled rule on the finest timeframe; the rules of RuleLists have no
\* timeframe
IntervalRuleLists ==
    {Pick(<<WithTimeframe(RulePool[2], buyTimeframe),
            WithTimeframe(RulePool[5], sellTimeframe),
            WithTimeframe(RulePool[4], "1Min")>>, keep, 1) :
        buyTimeframe \in Timeframes, sellTimeframe \in Timeframes,
        keep \in SUBSET (1..3)}
    \cup {<<RulePool[2], RulePool[5]>>}

InitInterval ==
    /\ InitSingle \/ InitNone
    /\ rules \in IntervalRuleLists
    /\ initialCapital \in Capitals
    /\ InitLocals

\* the page is open and no request has been sent
InitIdle ==
    /\ InitNone
    /\ rules = <<>>
    /\ initialCapital = 0
    /\ InitLocals

\* program constant of line 239
SampleCount == 100

\* a series long enough for the sampling step of line 239 to exceed 1
LongBars == 2 * SampleCount

\* the requests made of the second to the sixth rule of the pool
LongRuleLists == {Pick(RulePool, keep, 1) : keep \in SUBSET (2..6)}

\* the lengths around the multiples of SampleCount, and the shortest ones
SampledLengths ==
    {n \in 0..MaxSampledBars :
        n <= 3 \/ n % SampleCount \in {0, 1, SampleCount - 1}}

\* one stock, or none, whose price and volume stay put until the last bar
InitSampling ==
    /\ \/ /\ stocks = <<StockA>>
          /\ \E n \in SampledLengths : \E last \in Prices :
                generated = [x \in {StockA} |->
                                [k \in 1..n |->
                                    Bar(k - 1, IF k = n THEN last ELSE 100, 100000)]]
       \/ InitNone
    /\ rules \in RouteRuleLists
    /\ initialCapital \in Capitals
    /\ InitLocals

\* one stock whose price and volume stay put until the last two bars
InitLong ==
    /\ stocks = <<StockA>>
    /\ \E tail \in SeriesOfLen(2) :
          generated = [x \in {StockA} |->
                        [k \in 1..LongBars |->
                            IF k <= LongBars - 2
                            THEN Bar(k - 1, 100, 100000)
                            ELSE Bar(k - 1, tail[k - (LongBars - 2)].price,
                                     tail[k - (LongBars - 2)].volume)]]
    /\ rules \in LongRuleLists
    /\ initialCapital \in Capitals
    /\ InitLocals

-----------------------------------------------------------------------------
(* The handler, lines 84-309 *)

\* Enabled without the filter
EnabledAny(rs) == rs

Enabled(rs) == SelectSeq(rs, LAMBDA r : r.enabled)

\* WithDecision without the filter: every rule on both sides
WithDecisionAny(rs, decision) == rs

WithDecision(rs, decision) == SelectSeq(rs, LAMBDA r : r.decision = decision)

\* Math.max(...Object.values(stockPriceData).map((d) => d.length))
MaxLength(data) ==
    CHOOSE n \in {Len(data[s]) : s \in DOMAIN data} :
        \A s \in DOMAIN data : Len(data[s]) <= n

\* lines 89-94: no stock or no rule
RejectEmpty ==
    /\ pc = "validate"
    /\ Len(stocks) = 0 \/ Len(rules) = 0
    /\ response' = [status |-> 400,
                    error |-> "Please select at least one stock and add at least one rule"]
    /\ pc' = "done"
    /\ UNCHANGED <<config, proxy, page, minInterval, buyRules, sellRules, trades, cash, positions,
                   portfolioValues, timestamps, stockPriceData,
                   maxDataLength, i, stockIdx, positionPnLPercent, closeIdx>>

\* lines 96-102: no enabled rule
RejectDisabled ==
    /\ pc = "validate"
    /\ ~(Len(stocks) = 0 \/ Len(rules) = 0)
    /\ Len(Enabled(rules)) = 0
    /\ response' = [status |-> 400, error |-> "Please enable at least one rule"]
    /\ pc' = "done"
    /\ UNCHANGED <<config, proxy, page, minInterval, buyRules, sellRules, trades, cash, positions,
                   portfolioValues, timestamps, stockPriceData,
                   maxDataLength, i, stockIdx, positionPnLPercent, closeIdx>>

\* what a rule's timeframe reads as
TimeframeOf(rule) ==
    IF "timeframe" \in DOMAIN rule THEN rule.timeframe ELSE Undefined

\* lines 64-76: the minutes of a timeframe, 60 for one the map does not have
getIntervalMinutes(timeframe) ==
    CASE timeframe = "1Min" -> 1
      [] timeframe = "5Min" -> 5
      [] timeframe = "15Min" -> 15
      [] timeframe = "30Min" -> 30
      [] timeframe = "1H" -> 60
      [] timeframe = "4H" -> 240
      [] timeframe = "1D" -> 1440
      [] timeframe = "1W" -> 10080
      [] OTHER -> 60

\* Math.min over a set of numbers
MinOf(S) == CHOOSE m \in S : \A n \in S : m <= n

\* MinInterval without the 60 among the arguments
MinIntervalUncapped(enabledRules) ==
    MinOf({getIntervalMinutes(TimeframeOf(enabledRules[k])) :
             k \in 1..Len(enabledRules)})

\* line 116: Math.min(...enabledRules.map(getIntervalMinutes), 60)
MinInterval(enabledRules) ==
    MinOf({getIntervalMinutes(TimeframeOf(enabledRules[k])) :
             k \in 1..Len(enabledRules)} \cup {60})

\* where the outer loop goes with the bar index next
LoopFrom(next, length) == IF next < length THEN "buy" ELSE "close"

\* lines 104-126: the rules are split, the ledger is set up, the series are
\* generated and the outer loop is entered at i = 1
StartBacktest ==
    /\ pc = "validate"
    /\ ~(Len(stocks) = 0 \/ Len(rules) = 0)
    /\ Len(Enabled(rules)) # 0
    /\ buyRules' = WithDecision(Enabled(rules), "BUY")
    /\ sellRules' = WithDecision(Enabled(rules), "SELL")
    /\ minInterval' = MinInterval(Enabled(rules))
    /\ trades' = <<>>
    /\ cash' = initialCapital
    /\ positions' = <<>>
    /\ portfolioValues' = <<initialCapital>>
    /\ timestamps' = <<StartDate>>
    /\ stockPriceData' = [s \in Range(stocks) |-> generatePriceData(s)]
    /\ maxDataLength' = MaxLength(stockPriceData')
    /\ i' = 1
    /\ stockIdx' = 0
    /\ closeIdx' = 0
    /\ pc' = LoopFrom(1, maxDataLength')
    /\ UNCHANGED <<config, proxy, page, positionPnLPercent, response>>

\* NextStock leaving the inner loop after any stock
NextStockEndsBar ==
    /\ stockIdx' = stockIdx
    /\ pc' = "sample"

\* the end of one iteration of the inner loop: the next stock, or the
\* sampling that ends the bar
NextStock ==
    IF stockIdx + 1 < Len(stocks)
    THEN /\ stockIdx' = stockIdx + 1
         /\ pc' = "buy"
    ELSE /\ stockIdx' = stockIdx
         /\ pc' = "sample"

\* Affordable without the comparison to the cost
AffordableAlways(available, cost) == TRUE

\* Affordable as a test that some cash is left
AffordableWhenPositive(available, cost) == available > 0

\* line 167: if (cash >= cost)
Affordable(available, cost) == available >= cost

\* line 146: if (!position)
MayBuy(held) == ~held

\* line 191: if (positions[stock])
MaySell(ps, stock) == HasPosition(ps, stock)

RECURSIVE FirstTriggered(_, _, _, _)
FirstTriggered(rs, k, current, previous) ==
    IF k > Len(rs) THEN 0
    ELSE IF BuyTriggered(rs[k], current, previous) THEN k
    ELSE FirstTriggered(rs, k + 1, current, previous)

\* FirstBuy with the break after the cash test instead of inside it: the
\* loop ends at the first triggered rule, bought or not
FirstBuyStopsAtTriggered(rs, k, current, previous, available) ==
    LET t == FirstTriggered(rs, k, current, previous)
    IN IF t # 0 /\ available >= current.price * rs[t].quantity THEN t ELSE 0

RECURSIVE FirstBuy(_, _, _, _, _)
\* lines 147-187: the index in rs of the first rule, from k on, that is
\* triggered on the bar and whose cost the cash covers; 0 if there is none
FirstBuy(rs, k, current, previous, available) ==
    IF k > Len(rs) THEN 0
    ELSE IF /\ BuyTriggered(rs[k], current, previous)
            /\ Affordable(available, current.price * rs[k].quantity)
         THEN k
         ELSE FirstBuy(rs, k + 1, current, previous, available)

BuyTrade(bar, stock, current, rule) ==
    [id |-> "trade-" \o ToString(bar) \o "-" \o stock \o "-buy",
     timestamp |-> current.timestamp,
     stock |-> stock,
     decision |-> "BUY",
     price |-> current.price,
     quantity |-> rule.quantity,
     ruleTriggered |-> rule.name]

\* lines 127-188: the top of an iteration for one stock and its BUY rules
EvaluateBuy ==
    /\ pc = "buy"
    /\ LET stock == At(stocks, stockIdx)
           priceData == stockPriceData[stock]
       IN IF i >= Len(priceData)
          THEN \* line 129: continue
               /\ NextStock
               /\ UNCHANGED <<trades, cash, positions, positionPnLPercent>>
          ELSE LET current == At(priceData, i)
                   previous == At(priceData, i - 1)
                   held == HasPosition(positions, stock)
                   k == FirstBuy(buyRules, 1, current, previous, cash)
               IN /\ positionPnLPercent' =
                        IF held
                        THEN [num |-> current.price - PositionOf(positions, stock).entryPrice,
                              den |-> PositionOf(positions, stock).entryPrice]
                        ELSE [num |-> 0, den |-> 1]
                  /\ IF MayBuy(held) /\ k # 0
                     THEN /\ cash' = cash - current.price * buyRules[k].quantity
                          /\ positions' = SetPosition(positions,
                                [stock |-> stock,
                                 entryPrice |-> current.price,
                                 quantity |-> buyRules[k].quantity,
                                 entryTimestamp |-> current.timestamp])
                          /\ trades' = Append(trades,
                                BuyTrade(i, stock, current, buyRules[k]))
                     ELSE UNCHANGED <<trades, cash, positions>>
                  /\ pc' = "sell"
                  /\ stockIdx' = stockIdx
    /\ UNCHANGED <<config, proxy, page, minInterval, buyRules, sellRules, portfolioValues, timestamps,
                   stockPriceData, maxDataLength, i, closeIdx, response>>

RECURSIVE FirstSell(_, _, _, _, _)
\* lines 194-234: the index in rs of the first rule, from k on, that is
\* triggered; 0 if there is none
FirstSell(rs, k, current, previous, pnl) ==
    IF k > Len(rs) THEN 0
    ELSE IF SellTriggered(rs[k], current, previous, pnl) THEN k
    ELSE FirstSell(rs, k + 1, current, previous, pnl)

\* SellTrade selling the quantity of the rule, not the position's
SellTradeOfRuleQuantity(bar, stock, current, pos, rule) ==
    [id |-> "trade-" \o ToString(bar) \o "-" \o stock \o "-sell",
     timestamp |-> current.timestamp,
     stock |-> stock,
     decision |-> "SELL",
     price |-> current.price,
     quantity |-> rule.quantity,
     ruleTriggered |-> rule.name,
     pnl |-> (current.price - pos.entryPrice) * pos.quantity]

\* SellTrade with the pnl on the quantity of the rule, not the position's
SellTradeRuleQuantity(bar, stock, current, pos, rule) ==
    [id |-> "trade-" \o ToString(bar) \o "-" \o stock \o "-sell",
     timestamp |-> current.timestamp,
     stock |-> stock,
     decision |-> "SELL",
     price |-> current.price,
     quantity |-> pos.quantity,
     ruleTriggered |-> rule.name,
     pnl |-> (current.price - pos.entryPrice) * rule.quantity]

SellTrade(bar, stock, current, pos, rule) ==
    [id |-> "trade-" \o ToString(bar) \o "-" \o stock \o "-sell",
     timestamp |-> current.timestamp,
     stock |-> stock,
     decision |-> "SELL",
     price |-> current.price,
     quantity |-> pos.quantity,
     ruleTriggered |-> rule.name,
     pnl |-> (current.price - pos.entryPrice) * pos.quantity]

\* lines 190-236: the SELL rules of the iteration, then the next stock
EvaluateSell ==
    /\ pc = "sell"
    /\ LET stock == At(stocks, stockIdx)
           priceData == stockPriceData[stock]
           current == At(priceData, i)
           previous == At(priceData, i - 1)
           k == FirstSell(sellRules, 1, current, previous, positionPnLPercent)
       IN IF MaySell(positions, stock) /\ k # 0
          THEN LET pos == PositionOf(positions, stock)
               IN /\ cash' = cash + current.price * pos.quantity
                  /\ positions' = DeletePosition(positions, stock)
                  /\ trades' = Append(trades,
                        SellTrade(i, stock, current, pos, sellRules[k]))
          ELSE UNCHANGED <<trades, cash, positions>>
    /\ NextStock
    /\ UNCHANGED <<config, proxy, page, minInterval, buyRules, sellRules, portfolioValues, timestamps,
                   stockPriceData, maxDataLength, i, positionPnLPercent,
                   closeIdx, response>>

\* SampleStep without the division: every bar is sampled
SampleStepOne(n) == 1

\* Math.max(1, Math.floor(maxDataLength / 100))
SampleStep(n) == Max(1, n \div SampleCount)

\* MarkPrice reading the first bar instead of the sampled one
MarkPriceFirstBar(priceData, bar) ==
    IF Len(priceData) = 0 THEN 0 ELSE priceData[1].price

\* priceData[Math.min(i, priceData.length - 1)]?.price || 0
MarkPrice(priceData, bar) ==
    IF Len(priceData) = 0 THEN 0
    ELSE At(priceData, Min(bar, Len(priceData) - 1)).price

RECURSIVE MarkToMarket(_, _, _, _)
\* lines 241-245: the value of the open positions from entry k on
MarkToMarket(ps, k, data, bar) ==
    IF k > Len(ps) THEN 0
    ELSE MarkPrice(data[ps[k].stock], bar) * ps[k].quantity
            + MarkToMarket(ps, k + 1, data, bar)

\* line 247
SampleTimestamp(bar) ==
    LET first == stockPriceData[At(stocks, 0)]
    IN IF Len(first) = 0 THEN EndDate
       ELSE At(first, Min(bar, Len(first) - 1)).timestamp

\* RecordPortfolioValue without line 247: the value is pushed, its
\* timestamp is not
RecordPortfolioValueOnly ==
    /\ pc = "sample"
    /\ IF i % SampleStep(maxDataLength) = 0
       THEN portfolioValues' = Append(portfolioValues,
                    cash + MarkToMarket(positions, 1, stockPriceData, i))
       ELSE UNCHANGED portfolioValues
    /\ i' = i + 1
    /\ stockIdx' = 0
    /\ pc' = LoopFrom(i + 1, maxDataLength)
    /\ UNCHANGED <<config, proxy, page, minInterval, buyRules, sellRules, trades, cash, positions,
                   stockPriceData, maxDataLength, positionPnLPercent,
                   closeIdx, response, timestamps>>

\* lines 238-249: the periodic sample that ends a bar, then the next bar
RecordPortfolioValue ==
    /\ pc = "sample"
    /\ IF i % SampleStep(maxDataLength) = 0
       THEN /\ portfolioValues' = Append(portfolioValues,
                    cash + MarkToMarket(positions, 1, stockPriceData, i))
            /\ timestamps' = Append(timestamps, SampleTimestamp(i))
       ELSE UNCHANGED <<portfolioValues, timestamps>>
    /\ i' = i + 1
    /\ stockIdx' = 0
    /\ pc' = LoopFrom(i + 1, maxDataLength)
    /\ UNCHANGED <<config, proxy, page, minInterval, buyRules, sellRules, trades, cash, positions,
                   stockPriceData, maxDataLength, positionPnLPercent,
                   closeIdx, response>>

\* FinalPrice always taking the fallback
FinalPriceIsEntry(priceData, position) == position.entryPrice

\* priceData[priceData.length - 1]?.price || position.entryPrice
FinalPrice(priceData, position) ==
    IF Len(priceData) = 0 \/ At(priceData, Len(priceData) - 1).price = 0
    THEN position.entryPrice
    ELSE At(priceData, Len(priceData) - 1).price

FinalTrade(position, finalPrice) ==
    [id |-> "trade-final-" \o position.stock,
     timestamp |-> EndDate,
     stock |-> position.stock,
     decision |-> "SELL",
     price |-> finalPrice,
     quantity |-> position.quantity,
     ruleTriggered |-> "End of Backtest",
     pnl |-> (finalPrice - position.entryPrice) * position.quantity]

\* lines 251-268: one iteration over Object.entries(positions); the loop
\* leaves the positions object as it is
ClosePosition ==
    /\ pc = "close"
    /\ closeIdx < Len(positions)
    /\ LET position == At(positions, closeIdx)
           finalPrice == FinalPrice(stockPriceData[position.stock], position)
       IN /\ cash' = cash + finalPrice * position.quantity
          /\ trades' = Append(trades, FinalTrade(position, finalPrice))
    /\ closeIdx' = closeIdx + 1
    /\ UNCHANGED <<config, proxy, page, minInterval, pc, buyRules, sellRules, positions,
                   portfolioValues, timestamps, stockPriceData,
                   maxDataLength, i, stockIdx, positionPnLPercent, response>>

\* SellTrades without the SELLs of the liquidation
SellTradesOfRules(ts) ==
    SelectSeq(ts, LAMBDA t : t.decision = "SELL" /\ "pnl" \in DOMAIN t
                                /\ t.ruleTriggered # "End of Backtest")

\* line 271
SellTrades(ts) ==
    SelectSeq(ts, LAMBDA t : t.decision = "SELL" /\ "pnl" \in DOMAIN t)

RECURSIVE SumPnLOfWins(_, _)
\* SumPnL over the gains alone
SumPnLOfWins(ts, k) ==
    IF k > Len(ts) THEN 0
    ELSE (IF ts[k].pnl > 0 THEN ts[k].pnl ELSE 0) + SumPnLOfWins(ts, k + 1)

RECURSIVE SumPnL(_, _)
\* line 274
SumPnL(ts, k) == IF k > Len(ts) THEN 0 ELSE ts[k].pnl + SumPnL(ts, k + 1)

\* line 283: if (drawdown > maxDrawdown), both quotients num / den
Exceeds(drawdown, maxDrawdown) ==
    drawdown.num * maxDrawdown.den > maxDrawdown.num * drawdown.den

\* lines 278 and 281: the peak once the loop has passed values[k], the
\* largest of the initial capital and the values up to k
PeakAt(values, capital, k) ==
    LET seen == {capital} \cup {values[j] : j \in 1..k}
    IN CHOOSE top \in seen : \A v \in seen : v <= top

\* line 282: the drawdown the loop computes at values[k]
DrawdownAt(values, capital, k) ==
    [num |-> PeakAt(values, capital, k) - values[k],
     den |-> PeakAt(values, capital, k)]

\* MaxDrawdownOf without the running peak and the running maximum: the
\* decline of the last value from the initial capital
MaxDrawdownOfLastPoint(values, capital) ==
    [num |-> capital - values[Len(values)], den |-> capital]

\* lines 277-284: what the loop leaves in maxDrawdown, the largest of 0
\* and the drawdowns at the values, as a quotient num / den
MaxDrawdownOf(values, capital) ==
    LET all == {[num |-> 0, den |-> 1]}
                  \cup {DrawdownAt(values, capital, k) : k \in 1..Len(values)}
    IN CHOOSE worst \in all : \A d \in all : ~Exceeds(d, worst)

\* lines 270-301: the metrics, the final snapshot and the response
CalculateMetrics ==
    /\ pc = "close"
    /\ closeIdx >= Len(positions)
    /\ LET sellTrades == SellTrades(trades)
           maxDrawdown == MaxDrawdownOf(portfolioValues, initialCapital)
       IN /\ portfolioValues' = Append(portfolioValues, cash)
          /\ timestamps' = Append(timestamps, EndDate)
          /\ response' =
                [status |-> 200,
                 totalTrades |-> Len(trades),
                 winningTrades |-> Len(SelectSeq(sellTrades, LAMBDA t : t.pnl > 0)),
                 losingTrades |-> Len(SelectSeq(sellTrades, LAMBDA t : t.pnl < 0)),
                 totalPnL |-> SumPnL(sellTrades, 1),
                 percentReturn |-> RoundHundredths(cash - initialCapital, initialCapital),
                 maxDrawdown |-> RoundHundredths(maxDrawdown.num, maxDrawdown.den),
                 trades |-> trades,
                 portfolioValue |-> portfolioValues',
                 timestamps |-> timestamps']
    /\ pc' = "done"
    /\ UNCHANGED <<config, proxy, page, minInterval, buyRules, sellRules, trades, cash, positions,
                   stockPriceData, maxDataLength, i, stockIdx,
                   positionPnLPercent, closeIdx>>

-----------------------------------------------------------------------------
(* The proxy route, route.ts lines 7-69: the same validation, then the     *)
(* request is posted to the Python backend and its answer passed on        *)

\* the state of the local engine's handler
engine == <<pc, buyRules, sellRules, trades, cash, positions, portfolioValues,
            timestamps, stockPriceData, maxDataLength, i, stockIdx,
            positionPnLPercent, closeIdx, response, minInterval>>

\* what the backend may answer: a result, an error with a detail, an error
\* whose body is not JSON
BackendAnswers ==
    {[ok |-> TRUE, status |-> 200, body |-> [totalTrades |-> 0]],
     [ok |-> FALSE, status |-> 422, body |-> [detail |-> "Invalid rule"]],
     [ok |-> FALSE, status |-> 500, body |-> <<>>]}

\* lines 12-17
ProxyRejectEmpty ==
    /\ proxyPc = "validate"
    /\ Len(stocks) = 0 \/ Len(rules) = 0
    /\ proxyResponse' = [status |-> 400,
                         error |-> "Please select at least one stock and add at least one rule"]
    /\ proxyPc' = "done"
    /\ UNCHANGED <<config, engine, page, forwarded>>

\* lines 19-25
ProxyRejectDisabled ==
    /\ proxyPc = "validate"
    /\ ~(Len(stocks) = 0 \/ Len(rules) = 0)
    /\ Len(Enabled(rules)) = 0
    /\ proxyResponse' = [status |-> 400, error |-> "Please enable at least one rule"]
    /\ proxyPc' = "done"
    /\ UNCHANGED <<config, engine, page, forwarded>>

\* lines 27-40: the fetch is issued
ProxyForward ==
    /\ proxyPc = "validate"
    /\ ~(Len(stocks) = 0 \/ Len(rules) = 0)
    /\ Len(Enabled(rules)) # 0
    /\ forwarded' = Append(forwarded,
            [stocks |-> stocks, startDate |-> StartDate, endDate |-> EndDate,
             initialCapital |-> initialCapital, rules |-> rules])
    /\ proxyPc' = "fetch"
    /\ UNCHANGED <<config, engine, page, proxyResponse>>

\* lines 42-52: the backend has answered
ProxyAnswer ==
    /\ proxyPc = "fetch"
    /\ \E answer \in BackendAnswers :
          proxyResponse' =
             IF answer.ok
             THEN [status |-> 200, result |-> answer.body]
             ELSE [status |-> answer.status,
                   error |-> IF "detail" \in DOMAIN answer.body
                             THEN answer.body.detail
                             ELSE "Backtest failed on Python backend"]
    /\ proxyPc' = "done"
    /\ UNCHANGED <<config, engine, page, forwarded>>

\* lines 53-62: the fetch has thrown, the backend is not reachable
ProxyUnreachable ==
    /\ proxyPc = "fetch"
    /\ proxyResponse' = [status |-> 503,
                         error |-> "Cannot connect to Python backend. Make sure the Python API server is running on port 8000."]
    /\ proxyPc' = "done"
    /\ UNCHANGED <<config, engine, page, forwarded>>

\* lines 53-68: anything else thrown after the fetch was issued
ProxyFailed ==
    /\ proxyPc = "fetch"
    /\ proxyResponse' = [status |-> 500,
                         error |-> "Failed to run backtest. Check if the Python API is running."]
    /\ proxyPc' = "done"
    /\ UNCHANGED <<config, engine, page, forwarded>>

ProxyNext ==
    \/ ProxyRejectEmpty
    \/ ProxyRejectDisabled
    \/ ProxyForward
    \/ ProxyAnswer
    \/ ProxyUnreachable
    \/ ProxyFailed

-----------------------------------------------------------------------------

(* The results view, BacktestResults *)

\* winRate over the SELLs, half of the trades
winRateOfSells(results) ==
    IF results.totalTrades > 0
    THEN (2 * 1000 * results.winningTrades + results.totalTrades \div 2)
            \div (2 * (results.totalTrades \div 2))
    ELSE 0

\* lines 87-89: ((winningTrades / totalTrades) * 100).toFixed(1), in tenths
\* of a percent; '0' without trades
winRate(results) ==
    IF results.totalTrades > 0
    THEN (2 * 1000 * results.winningTrades + results.totalTrades)
            \div (2 * results.totalTrades)
    ELSE 0

-----------------------------------------------------------------------------
(* The stock selector, StockSelector.tsx; a text is the sequence of its    *)
(* characters. The selector, the rule builder and the Run button are the   *)
(* content of the configure tab, trading.ts lines 218-277, and are there   *)
(* while that tab is the active one                                        *)

\* trading.ts line 92
POPULAR_STOCKS ==
    <<"AAPL", "GOOGL", "MSFT", "AMZN", "NFLX", "TSLA", "META", "NVDA">>

\* the buttons of the popular stocks that are pressed: the first MaxPopular
MaxPopular == 2

LowerCase == <<"a", "b", "c", "d", "e", "f", "g", "h", "i", "j", "k", "l", "m",
               "n", "o", "p", "q", "r", "s", "t", "u", "v", "w", "x", "y", "z">>

UpperCase == <<"A", "B", "C", "D", "E", "F", "G", "H", "I", "J", "K", "L", "M",
               "N", "O", "P", "Q", "R", "S", "T", "U", "V", "W", "X", "Y", "Z">>

\* String.prototype.toUpperCase, character by character
toUpperCase(text) ==
    [k \in 1..Len(text) |->
        IF \E n \in 1..26 : LowerCase[n] = text[k]
        THEN UpperCase[CHOOSE n \in 1..26 : LowerCase[n] = text[k]]
        ELSE text[k]]

RECURSIVE trimStart(_)
trimStart(text) ==
    IF text # <<>> /\ Head(text) = " " THEN trimStart(Tail(text)) ELSE text

RECURSIVE trimEnd(_)
trimEnd(text) ==
    IF text # <<>> /\ text[Len(text)] = " "
    THEN trimEnd(SubSeq(text, 1, Len(text) - 1))
    ELSE text

\* String.prototype.trim
trim(text) == trimEnd(trimStart(text))

\* the string of the characters, as the members of selectedStocks are
RECURSIVE Join(_)
Join(text) == IF text = <<>> THEN "" ELSE Head(text) \o Join(Tail(text))

\* what is typed or pasted into the custom ticker input
TypedTexts ==
    {<<>>, <<" ", " ">>, <<"a", "a", "p", "l">>, <<"i", "b", "m">>,
     <<" ", "I", "b", "m", " ">>, <<"t", "s", "l", "a">>}

\* includes answering false whatever the list holds
includesNever(list, stock) == FALSE

\* Array.prototype.includes
includes(list, stock) == \E k \in 1..Len(list) : list[k] = stock

\* lines 23-29: the selection after toggleStock(stock)
toggleStock(selected, stock) ==
    IF includes(selected, stock)
    THEN SelectSeq(selected, LAMBDA s : s # stock)
    ELSE Append(selected, stock)

\* lines 54 and 93: a popular stock's button or a selected stock's badge is
\* pressed
ToggleStock ==
    /\ activeTab = "configure"
    /\ \E stock \in {POPULAR_STOCKS[k] : k \in 1..MaxPopular}
                        \cup Range(selectedStocks) :
          selectedStocks' = toggleStock(selectedStocks, stock)
    /\ UNCHANGED <<config, engine, proxy, customStock, pageRules, now,
                   windows, ruleTypes, run>>

\* line 70: the input changes
TypeCustomStock ==
    /\ activeTab = "configure"
    /\ \E text \in TypedTexts : customStock' = toUpperCase(text)
    /\ UNCHANGED <<config, engine, proxy, selectedStocks, pageRules, now,
                   windows, ruleTypes, run>>

\* lines 31-37: the Add button or Enter; nothing happens for an empty symbol
\* or one already selected
addCustomStock ==
    LET symbol == Join(trim(toUpperCase(customStock)))
    IN  /\ activeTab = "configure"
        /\ symbol # "" /\ ~includes(selectedStocks, symbol)
        /\ selectedStocks' = Append(selectedStocks, symbol)
        /\ customStock' = <<>>
        /\ UNCHANGED <<config, engine, proxy, pageRules, now, windows,
                       ruleTypes, run>>

SelectorNext ==
    \/ ToggleStock
    \/ TypeCustomStock
    \/ addCustomStock

-----------------------------------------------------------------------------
(* NumberInput, number-input.tsx, as the rule builder uses it for the two  *)
(* windows of a mean reversal rule, RuleBuilder.tsx lines 482-506          *)

Digits == <<"0", "1", "2", "3", "4", "5", "6", "7", "8", "9">>

IsDigit(c) == \E d \in 1..10 : Digits[d] = c

DigitValue(c) == (CHOOSE d \in 1..10 : Digits[d] = c) - 1

\* a number, or NaN
Number(n) == [isNaN |-> FALSE, value |-> n]

NaN == [isNaN |-> TRUE, value |-> 0]

\* the number of the digits at the start of text, after the digits read so
\* far, whose number is value
RECURSIVE ParseDigits(_, _)
ParseDigits(text, value) ==
    IF text # <<>> /\ IsDigit(Head(text))
    THEN ParseDigits(Tail(text), 10 * value + DigitValue(Head(text)))
    ELSE value

\* parseFloat of a text without a decimal point or an exponent: leading
\* white space is skipped, a sign is read, the digits are read up to the
\* first character that is none; NaN without a digit
parseFloat(text) ==
    LET rest == trimStart(text)
        signed == rest # <<>> /\ Head(rest) \in {"-", "+"}
        digits == IF signed THEN Tail(rest) ELSE rest
    IN  IF digits = <<>> \/ ~IsDigit(Head(digits)) THEN NaN
        ELSE IF signed /\ Head(rest) = "-"
             THEN Number(-ParseDigits(digits, 0))
        ELSE Number(ParseDigits(digits, 0))

\* line 27: parseFloat(v) || 0
parseValue(v) ==
    IF parseFloat(v).isNaN \/ parseFloat(v).value = 0 THEN 0
    ELSE parseFloat(v).value

RECURSIVE FormatNatural(_)
FormatNatural(n) ==
    IF n < 10 THEN <<Digits[n + 1]>>
    ELSE Append(FormatNatural(n \div 10), Digits[(n % 10) + 1])

\* line 26: v.toString() of an integer
formatValue(v) == IF v < 0 THEN <<"-">> \o FormatNatural(-v) ELSE FormatNatural(v)

\* lines 482-506: min, max and step of the two inputs
ShortMin == 2

ShortMax == 50

LongMin == 5

LongMax == 200

Step == 1

\* what is typed into an input
TypedNumbers == {<<"3">>, <<"9", "9", "9">>, <<"x">>}

\* the number of presses and blurs of the window inputs a run of the model
\* has
MaxEdits == 3

\* lines 37-40: the value after increment
increment(value, max, step) == Min(max, value + step)

\* lines 42-45: the value after decrement
decrement(value, min, step) == Max(min, value - step)

\* lines 51-53: the value after the blur, clamped into min..max
clamped(inputValue, min, max) == Max(min, Min(max, parseValue(inputValue)))

\* lines 33-35: the effect that follows a change of the value
Effect(value, newValue, inputValue) ==
    IF newValue # value THEN formatValue(newValue) ELSE inputValue

\* the + button or ArrowUp of the short window
ShortIncrement ==
    /\ activeTab = "configure"
    /\ edits < MaxEdits
    /\ edits' = edits + 1
    /\ shortWindow' = increment(shortWindow, ShortMax, Step)
    /\ shortInput' = Effect(shortWindow, shortWindow', shortInput)
    /\ UNCHANGED <<config, engine, proxy, selector, pageRules, now,
                   longWindow, longInput, ruleTypes, run>>

\* the - button or ArrowDown of the short window
ShortDecrement ==
    /\ activeTab = "configure"
    /\ edits < MaxEdits
    /\ edits' = edits + 1
    /\ shortWindow' = decrement(shortWindow, ShortMin, Step)
    /\ shortInput' = Effect(shortWindow, shortWindow', shortInput)
    /\ UNCHANGED <<config, engine, proxy, selector, pageRules, now,
                   longWindow, longInput, ruleTypes, run>>

\* lines 47-49: the text of the short window changes
ShortChange ==
    /\ activeTab = "configure"
    /\ \E text \in TypedNumbers : shortInput' = text
    /\ UNCHANGED <<config, engine, proxy, selector, pageRules, now,
                   shortWindow, longWindow, longInput, edits, ruleTypes, run>>

\* lines 51-56: the short window loses the focus, or Enter is pressed
ShortBlur ==
    /\ activeTab = "configure"
    /\ edits < MaxEdits
    /\ edits' = edits + 1
    /\ shortWindow' = clamped(shortInput, ShortMin, ShortMax)
    /\ shortInput' = formatValue(shortWindow')
    /\ UNCHANGED <<config, engine, proxy, selector, pageRules, now,
                   longWindow, longInput, ruleTypes, run>>

LongIncrement ==
    /\ activeTab = "configure"
    /\ edits < MaxEdits
    /\ edits' = edits + 1
    /\ longWindow' = increment(longWindow, LongMax, Step)
    /\ longInput' = Effect(longWindow, longWindow', longInput)
    /\ UNCHANGED <<config, engine, proxy, selector, pageRules, now,
                   shortWindow, shortInput, ruleTypes, run>>

LongDecrement ==
    /\ activeTab = "configure"
    /\ edits < MaxEdits
    /\ edits' = edits + 1
    /\ longWindow' = decrement(longWindow, LongMin, Step)
    /\ longInput' = Effect(longWindow, longWindow', longInput)
    /\ UNCHANGED <<config, engine, proxy, selector, pageRules, now,
                   shortWindow, shortInput, ruleTypes, run>>

LongChange ==
    /\ activeTab = "configure"
    /\ \E text \in TypedNumbers : longInput' = text
    /\ UNCHANGED <<config, engine, proxy, selector, pageRules, now,
                   shortWindow, longWindow, shortInput, edits, ruleTypes, run>>

LongBlur ==
    /\ activeTab = "configure"
    /\ edits < MaxEdits
    /\ edits' = edits + 1
    /\ longWindow' = clamped(longInput, LongMin, LongMax)
    /\ longInput' = formatValue(longWindow')
    /\ UNCHANGED <<config, engine, proxy, selector, pageRules, now,
                   shortWindow, shortInput, ruleTypes, run>>

-----------------------------------------------------------------------------
(* The rule builder, RuleBuilder.tsx, and the rule list of the page,       *)
(* trading.ts lines 118-132                                                *)

\* lines 46-79
SIMPLE_RULE_TYPES ==
    <<[value |-> "buy_the_dip", label |-> "Buy the Dip", decision |-> "BUY",
       changeType |-> "price_decrease"],
      [value |-> "buy_momentum", label |-> "Buy on Momentum",
       decision |-> "BUY", changeType |-> "price_increase"],
      [value |-> "take_profit", label |-> "Take Profit", decision |-> "SELL",
       changeType |-> "price_increase"],
      [value |-> "stop_loss", label |-> "Stop Loss", decision |-> "SELL",
       changeType |-> "price_decrease"]>>

\* lines 82-113
PYTHON_RULE_TYPES ==
    <<[value |-> "mean_reversal", label |-> "Mean Reversal",
       decision |-> "BUY", hasShortWindow |-> TRUE, hasLongWindow |-> TRUE,
       hasProfitThreshold |-> FALSE, hasLossThreshold |-> FALSE],
      [value |-> "early_profit_taker", label |-> "Early Profit Taker",
       decision |-> "SELL", hasShortWindow |-> FALSE, hasLongWindow |-> FALSE,
       hasProfitThreshold |-> TRUE, hasLossThreshold |-> FALSE],
      [value |-> "early_loss_taker", label |-> "Early Loss Taker",
       decision |-> "SELL", hasShortWindow |-> FALSE, hasLongWindow |-> FALSE,
       hasProfitThreshold |-> FALSE, hasLossThreshold |-> TRUE],
      [value |-> "loss_profit_taker", label |-> "Loss/Profit Taker",
       decision |-> "SELL", hasShortWindow |-> FALSE, hasLongWindow |-> FALSE,
       hasProfitThreshold |-> TRUE, hasLossThreshold |-> TRUE]>>

\* lines 139-140: the entry of the selected type
ConfigOf(types, value) ==
    types[CHOOSE k \in 1..Len(types) : types[k].value = value]

\* the rules a run of the model adds
MaxAdds == 2

\* lines 131-137: the threshold inputs, the timeframe and the quantity are
\* left as they are first rendered
ChangePercent == 3

ProfitThreshold == 2

LossThreshold == 2

Timeframe == "1D"

Quantity == 100

\* `rule-${Date.now()}`
RuleId(time) == "rule-" \o ToString(time)

\* lines 165-168: the thresholds are divided by 100
Hundredth(percent) == [num |-> percent, den |-> 100]

\* lines 163-167: the params of a rule of the selected type
ParamsOf(cfg) ==
    [f \in (IF cfg.hasShortWindow THEN {"shortWindow"} ELSE {})
         \cup (IF cfg.hasLongWindow THEN {"longWindow"} ELSE {})
         \cup (IF cfg.hasProfitThreshold THEN {"profitThreshold"} ELSE {})
         \cup (IF cfg.hasLossThreshold THEN {"lossThreshold"} ELSE {}) |->
        CASE f = "shortWindow" -> shortWindow
          [] f = "longWindow" -> longWindow
          [] f = "profitThreshold" -> Hundredth(ProfitThreshold)
          [] f = "lossThreshold" -> Hundredth(LossThreshold)]

\* line 362
SelectSimpleRuleType ==
    /\ activeTab = "configure"
    /\ \E k \in 1..Len(SIMPLE_RULE_TYPES) :
          simpleRuleType' = SIMPLE_RULE_TYPES[k].value
    /\ UNCHANGED <<config, engine, proxy, selector, pageRules, now, windows,
                   pythonRuleType, run>>

\* line 465
SelectPythonRuleType ==
    /\ activeTab = "configure"
    /\ \E k \in 1..Len(PYTHON_RULE_TYPES) :
          pythonRuleType' = PYTHON_RULE_TYPES[k].value
    /\ UNCHANGED <<config, engine, proxy, selector, pageRules, now, windows,
                   simpleRuleType, run>>

\* lines 143-157 and trading.ts lines 118-120; the clock has moved on since
\* the rule before
handleAddSimpleRule ==
    LET cfg == ConfigOf(SIMPLE_RULE_TYPES, simpleRuleType)
    IN  /\ activeTab = "configure"
        /\ now < MaxAdds
        /\ now' = now + 1
        /\ pageRules' = Append(pageRules,
              [id |-> RuleId(now'), name |-> cfg.label, ruleType |-> "custom",
               timeframe |-> Timeframe, changeType |-> cfg.changeType,
               changePercent |-> ChangePercent, decision |-> cfg.decision,
               quantity |-> Quantity, enabled |-> TRUE])
        /\ UNCHANGED <<config, engine, proxy, selector, windows, ruleTypes,
                       run>>

\* lines 160-182 and trading.ts lines 118-120
handleAddPythonRule ==
    LET cfg == ConfigOf(PYTHON_RULE_TYPES, pythonRuleType)
    IN  /\ activeTab = "configure"
        /\ now < MaxAdds
        /\ now' = now + 1
        /\ pageRules' = Append(pageRules,
              [id |-> RuleId(now'), name |-> cfg.label,
               ruleType |-> pythonRuleType, timeframe |-> Timeframe,
               decision |-> cfg.decision, quantity |-> Quantity,
               enabled |-> TRUE, pythonRuleType |-> pythonRuleType,
               params |-> ParamsOf(cfg)])
        /\ UNCHANGED <<config, engine, proxy, selector, windows, ruleTypes,
                       run>>

\* trading.ts lines 122-124
handleRemoveRule ==
    /\ activeTab = "configure"
    /\ \E k \in 1..Len(pageRules) :
          pageRules' = SelectSeq(pageRules, LAMBDA r : r.id # pageRules[k].id)
    /\ UNCHANGED <<config, engine, proxy, selector, now, windows, ruleTypes,
                   run>>

\* trading.ts lines 126-132
handleToggleRule ==
    /\ activeTab = "configure"
    /\ \E k \in 1..Len(pageRules) :
          pageRules' = [j \in 1..Len(pageRules) |->
              IF pageRules[j].id = pageRules[k].id
              THEN [pageRules[j] EXCEPT !.enabled = ~pageRules[j].enabled]
              ELSE pageRules[j]]
    /\ UNCHANGED <<config, engine, proxy, selector, now, windows, ruleTypes,
                   run>>

\* the window inputs, the Python rules and the rule list
BuilderNext ==
    \/ ShortIncrement
    \/ ShortDecrement
    \/ ShortChange
    \/ ShortBlur
    \/ LongIncrement
    \/ LongDecrement
    \/ LongChange
    \/ LongBlur
    \/ SelectPythonRuleType
    \/ handleAddPythonRule
    \/ handleRemoveRule

-----------------------------------------------------------------------------
(* The page, Home of trading.ts: the tabs and runBacktest, lines 134-184.  *)
(* The fetch of /api/backtest is pending until it settles with a response  *)
(* or is rejected                                                          *)

\* the content of the configure tab is rendered only while the tab is
\* active: the selector and the rule builder start anew when it is shown
\* again
LeaveConfigure ==
    /\ customStock' = <<>>
    /\ simpleRuleType' = "buy_the_dip"
    /\ pythonRuleType' = "mean_reversal"
    /\ shortWindow' = 5
    /\ longWindow' = 20
    /\ shortInput' = <<"5">>
    /\ longInput' = <<"2", "0">>

\* setActiveTab(tab)
ShowTab(tab) ==
    /\ activeTab' = tab
    /\ IF activeTab = "configure" /\ tab # "configure"
       THEN LeaveConfigure
       ELSE UNCHANGED <<customStock, simpleRuleType, pythonRuleType,
                        shortWindow, longWindow, shortInput, longInput>>

\* line 205: a tab is selected
SelectTab ==
    /\ \E tab \in {"configure", "results"} : ShowTab(tab)
    /\ UNCHANGED <<config, engine, proxy, selectedStocks, pageRules, now,
                   edits, isLoading, pageResults, error, pending>>

\* lines 186-187
hasRule(rs, decision) ==
    \E k \in 1..Len(rs) : rs[k].enabled /\ rs[k].decision = decision

\* canRunBacktest without the SELL side
canRunBacktestWithoutSell ==
    Len(selectedStocks) > 0 /\ Len(pageRules) > 0 /\ hasRule(pageRules, "BUY")

\* lines 186-189
canRunBacktest ==
    /\ Len(selectedStocks) > 0
    /\ Len(pageRules) > 0
    /\ hasRule(pageRules, "BUY")
    /\ hasRule(pageRules, "SELL")

\* runBacktest leaving results as they are: line 147 left out
runBacktestKeepsResults ==
    /\ activeTab = "configure"
    /\ ~(isLoading \/ ~canRunBacktest)
    /\ IF Len(selectedStocks) = 0
       THEN /\ error' = String("Please select at least one stock")
            /\ UNCHANGED <<isLoading, pageResults, pending>>
       ELSE IF Len(pageRules) = 0
       THEN /\ error' = String("Please add at least one trading rule")
            /\ UNCHANGED <<isLoading, pageResults, pending>>
       ELSE /\ isLoading' = TRUE
            /\ error' = Null
            /\ pageResults' = pageResults
            /\ pending' = pending + 1
    /\ UNCHANGED <<config, engine, proxy, selector, pageRules, now, windows,
                   ruleTypes, activeTab>>

\* lines 250-252 and 134-168: the Run button, which is not disabled, is
\* pressed; runBacktest up to the await of the fetch
runBacktest ==
    /\ activeTab = "configure"
    /\ ~(isLoading \/ ~canRunBacktest)
    /\ IF Len(selectedStocks) = 0
       THEN /\ error' = String("Please select at least one stock")
            /\ UNCHANGED <<isLoading, pageResults, pending>>
       ELSE IF Len(pageRules) = 0
       THEN /\ error' = String("Please add at least one trading rule")
            /\ UNCHANGED <<isLoading, pageResults, pending>>
       ELSE /\ isLoading' = TRUE
            /\ error' = Null
            /\ pageResults' = Null
            /\ pending' = pending + 1
    /\ UNCHANGED <<config, engine, proxy, selector, pageRules, now, windows,
                   ruleTypes, activeTab>>

\* the results a response may carry
ResultBodies == {[totalTrades |-> 2]}

\* the bodies of a response that is not ok: the errors of route.ts, lines
\* 13-67, and a body without an error
ErrorBodies ==
    {[error |-> "Backtest failed on Python backend"],
     [message |-> "Internal Server Error"]}

\* what a rejected fetch or a body that is not JSON throws
Thrown ==
    {[isError |-> TRUE, message |-> "Failed to fetch"],
     [isError |-> FALSE, message |-> "aborted"]}

\* lines 175-180: catch and finally
Caught(err) ==
    /\ error' = String(IF err.isError THEN err.message
                        ELSE "An error occurred")
    /\ isLoading' = FALSE

\* lines 170-174 and 179-180: the response is ok
ResponseOk ==
    /\ pending > 0
    /\ pending' = pending - 1
    /\ \E data \in ResultBodies : pageResults' = data
    /\ ShowTab("results")
    /\ isLoading' = FALSE
    /\ UNCHANGED <<config, engine, proxy, selectedStocks, pageRules, now,
                   edits, error>>

\* lines 165-168 and 175-180: the response is not ok
ResponseNotOk ==
    /\ pending > 0
    /\ pending' = pending - 1
    /\ \E data \in ErrorBodies :
          Caught([isError |-> TRUE,
                  message |-> IF "error" \in DOMAIN data /\ data.error # ""
                              THEN data.error ELSE "Backtest failed"])
    /\ UNCHANGED <<config, engine, proxy, selector, pageRules, now, windows,
                   ruleTypes, pageResults, activeTab>>

\* lines 175-180: the fetch is rejected, or the body of the response is not
\* JSON
FetchRejected ==
    /\ pending > 0
    /\ pending' = pending - 1
    /\ \E err \in Thrown : Caught(err)
    /\ UNCHANGED <<config, engine, proxy, selector, pageRules, now, windows,
                   ruleTypes, pageResults, activeTab>>

\* the fetch settles
Settle == ResponseOk \/ ResponseNotOk \/ FetchRejected

PageNext ==
    \/ ToggleStock
    \/ SelectSimpleRuleType
    \/ handleAddSimpleRule
    \/ handleToggleRule
    \/ SelectTab
    \/ runBacktest
    \/ ResponseOk
    \/ ResponseNotOk
    \/ FetchRejected

-----------------------------------------------------------------------------

Next ==
    \/ RejectEmpty
    \/ RejectDisabled
    \/ StartBacktest
    \/ EvaluateBuy
    \/ EvaluateSell
    \/ RecordPortfolioValue
    \/ ClosePosition
    \/ CalculateMetrics

Spec == Init /\ [][Next]_vars

\* the same handler on the long series
SpecLong == InitLong /\ [][Next]_vars

\* the same handler on the requests with a mean reversal entry
SpecIndicator == InitIndicator /\ [][Next]_vars

\* the same handler on series of many lengths
SpecSampling == InitSampling /\ [][Next]_vars

\* the same handler on the requests whose rules have timeframes
SpecInterval == InitInterval /\ [][Next]_vars

\* the stock selector of the page, no request sent
SpecSelector == InitIdle /\ [][SelectorNext]_vars

\* the rule builder's Python rules, no request sent
SpecBuilder == InitIdle /\ [][BuilderNext]_vars

\* the page: stocks, simple rules, tabs and runs
SpecPage == InitIdle /\ [][PageNext]_vars

\* the page, every fetch settling
SpecPageFair == SpecPage /\ WF_vars(Settle)

\* both routes, each handling the request
SpecRoutes == InitRoutes /\ [][Next \/ ProxyNext]_vars

TypeOK ==
    /\ pc \in {"validate", "buy", "sell", "sample", "close", "done"}
    /\ cash \in Int
    /\ i \in Nat

-----------------------------------------------------------------------------
(* The properties *)

\* the handler has answered with a result
Completed == pc = "done" /\ response.status = 200

Last(seq) == seq[Len(seq)]

TradesOf(ts, stock) == SelectSeq(ts, LAMBDA t : t.stock = stock)

\* the stock and the bars of the iteration the handler is in
IterStock == At(stocks, stockIdx)

IterCurrent == At(stockPriceData[IterStock], i)

IterPrevious == At(stockPriceData[IterStock], i - 1)

\* the handler is at the BUY rules of a bar the stock has, without position
AtBuyWhileFlat ==
    /\ pc = "buy"
    /\ i < Len(stockPriceData[IterStock])
    /\ ~HasPosition(positions, IterStock)

\* the bar-over-bar percent change of the rule's metric reaches its percent
FiresOnBar(rule, current, previous) ==
    LET cur == IF rule.changeType \in {"price_increase", "price_decrease"}
               THEN current.price ELSE current.volume
        prev == IF rule.changeType \in {"price_increase", "price_decrease"}
                THEN previous.price ELSE previous.volume
    IN IF rule.changeType \in {"price_increase", "volume_increase"}
       THEN 100 * (cur - prev) >= rule.changePercent * prev
       ELSE 100 * (cur - prev) <= -(rule.changePercent * prev)

\* the enabled BUY rules of the request that fire on the bar of the iteration
FiringBuys ==
    {k \in 1..Len(rules) :
        /\ rules[k].enabled
        /\ rules[k].decision = "BUY"
        /\ FiresOnBar(rules[k], IterCurrent, IterPrevious)}

CostOf(k) == IterCurrent.price * rules[k].quantity

BuyAppended == Len(trades') = Len(trades) + 1 /\ Last(trades').decision = "BUY"

\* C1: for every stock the trades of the log alternate BUY, SELL, BUY, ...
\* starting with a BUY, and in a returned result the last trade of every
\* stock is a SELL: no position is left open.
Alternates(q) ==
    \A k \in 1..Len(q) : q[k].decision = (IF k % 2 = 1 THEN "BUY" ELSE "SELL")

C1_TradePairing ==
    \A s \in Range(stocks) :
        /\ Alternates(TradesOf(trades, s))
        /\ Completed =>
              /\ response.trades = trades
              /\ Len(TradesOf(response.trades, s)) % 2 = 0

\* a finished run in which a stock was bought, sold, bought again and
\* liquidated
C1_Witness ==
    /\ Completed
    /\ \E s \in Range(stocks) :
          /\ Len(TradesOf(trades, s)) >= 4
          /\ Last(TradesOf(trades, s)).ruleTriggered = "End of Backtest"

C3_CapitalGating ==
    /\ [](cash >= 0)
    /\ [][BuyAppended =>
            Last(trades').price * Last(trades').quantity <= cash]_vars

\* a BUY has used the cash up to the last unit
C3_Witness ==
    /\ \E k \in 1..Len(trades) : trades[k].decision = "BUY"
    /\ cash = 0
    /\ pc \in {"buy", "sell", "sample"}

RECURSIVE OpenValue(_, _, _, _)
\* the value at bar of what the trade log ts leaves open, over the stocks
\* from index k on: a stock is open when its last trade is a BUY, which
\* gives the quantity
OpenValue(ts, data, bar, k) ==
    IF k > Len(stocks) THEN 0
    ELSE LET q == TradesOf(ts, stocks[k])
         IN (IF Len(q) > 0 /\ Last(q).decision = "BUY"
             THEN At(data[stocks[k]], bar).price * Last(q).quantity
             ELSE 0) + OpenValue(ts, data, bar, k + 1)

\* C4: every value of the equity curve is, when it is appended, the cash
\* plus the value at the sampled bar of the positions the trade log leaves
\* open: the initial capital at the start, cash alone with nothing open at
\* the end; values once appended stay, and the result returns the curve.
C4_EquityConservation ==
    [][portfolioValues' # portfolioValues =>
        /\ Len(portfolioValues') = Len(portfolioValues) + 1
        /\ SubSeq(portfolioValues', 1, Len(portfolioValues)) = portfolioValues
        /\ CASE pc = "validate" ->
                    /\ Last(portfolioValues') = initialCapital
                    /\ trades' = <<>>
             [] pc = "sample" ->
                    Last(portfolioValues') =
                        cash' + OpenValue(trades', stockPriceData', i, 1)
             [] OTHER ->
                    /\ Last(portfolioValues') = cash'
                    /\ \A s \in Range(stocks) :
                          Len(TradesOf(trades', s)) % 2 = 0
                    /\ response'.portfolioValue = portfolioValues']_vars

\* a periodic sample was taken with two positions open whose prices have
\* moved since they were bought
C4_Witness ==
    /\ pc \in {"buy", "close"}
    /\ Len(portfolioValues) >= 3
    /\ Len(positions) = 2
    /\ Last(portfolioValues) # cash
    /\ Last(portfolioValues) # initialCapital

\* the drawdowns of the curve, in hundredths of a percent: the decline of a
\* point k from a point j at or before it.  The decline of k from the
\* running peak at k is the largest of them, and rounding keeps the order.
DeclinesInOrder(values) ==
    {RoundHundredths(values[p[1]] - values[p[2]], values[p[1]]) :
        p \in {q \in (1..Len(values)) \X (1..Len(values)) : q[1] <= q[2]}}

\* C5: the reported maxDrawdown is the largest drawdown over all points of
\* the returned portfolioValue, the final snapshot included.
C5_DrawdownOverAllPoints ==
    Completed =>
        /\ response.maxDrawdown \in DeclinesInOrder(response.portfolioValue)
        /\ \A d \in DeclinesInOrder(response.portfolioValue) :
              d <= response.maxDrawdown

\* C6: the reported maxDrawdown is between 0 and 100 percent (in
\* hundredths of a percent, between 0 and 10000).
C6_DrawdownBounds ==
    Completed => response.maxDrawdown >= 0 /\ response.maxDrawdown <= 10000

\* a finished run whose equity has been below its peak
C6_Witness == Completed /\ response.maxDrawdown > 0

\* C7: in a returned result every position held at the end of the timeline
\* has exactly one "End of Backtest" trade, the last trade of its stock: a
\* SELL of the whole quantity at the last price of the stock's series with
\* pnl (lastPrice - entryPrice) * quantity; there are no other such trades;
\* and each of them adds lastPrice * quantity to the cash.
Liquidated(position) ==
    LET series == stockPriceData[position.stock]
        lastPrice == Last(series).price
        forced == SelectSeq(trades, LAMBDA t :
                     t.stock = position.stock
                     /\ t.ruleTriggered = "End of Backtest")
    IN /\ Len(forced) = 1
       /\ forced[1] = Last(TradesOf(trades, position.stock))
       /\ forced[1].decision = "SELL"
       /\ forced[1].timestamp = EndDate
       /\ forced[1].price = lastPrice
       /\ forced[1].quantity = position.quantity
       /\ forced[1].pnl = (lastPrice - position.entryPrice) * position.quantity

C7_ForcedLiquidation ==
    /\ [](Completed =>
            /\ \A k \in 1..Len(positions) : Liquidated(positions[k])
            /\ Len(SelectSeq(trades, LAMBDA t :
                    t.ruleTriggered = "End of Backtest")) = Len(positions))
    /\ [][(pc = "close" /\ Len(trades') = Len(trades) + 1) =>
            /\ Last(trades').ruleTriggered = "End of Backtest"
            /\ cash' = cash + Last(trades').price * Last(trades').quantity]_vars

\* two positions were liquidated in a run without any SELL rule, at prices
\* other than their entry prices
C7_Witness ==
    /\ Completed
    /\ sellRules = <<>>
    /\ Len(positions) = 2
    /\ \A k \in 1..Len(positions) :
          Last(stockPriceData[positions[k].stock]).price # positions[k].entryPrice

\* C8: at the BUY rules of a bar, for a stock without position, the trade
\* recorded is the BUY of the first rule of the request that is enabled, is
\* a BUY rule, fires on the bar and costs at most the cash; without such a
\* rule nothing is recorded; no BUY is recorded anywhere else, and every
\* trade names an enabled rule of the request or the forced liquidation.
C8_FirstMatchWins ==
    [][/\ (AtBuyWhileFlat /\ pc' = "sell") =>
            LET able == {k \in FiringBuys : CostOf(k) <= cash}
            IN IF able = {}
               THEN trades' = trades
               ELSE LET first == CHOOSE k \in able : \A m \in able : k <= m
                    IN /\ BuyAppended
                       /\ Last(trades').stock = IterStock
                       /\ Last(trades').price = IterCurrent.price
                       /\ Last(trades').ruleTriggered = rules[first].name
                       /\ Last(trades').quantity = rules[first].quantity
       /\ BuyAppended => AtBuyWhileFlat
       /\ Len(trades') <= Len(trades) + 1
       /\ Len(trades') = Len(trades) + 1 =>
            \/ Last(trades').ruleTriggered = "End of Backtest"
            \/ \E k \in 1..Len(rules) :
                  rules[k].enabled /\ rules[k].name = Last(trades').ruleTriggered
      ]_vars

\* a request with a disabled rule whose first BUY rule fired without the
\* cash for it, so that the second BUY rule bought
C8_Witness ==
    /\ pc = "sell"
    /\ \E k \in 1..Len(rules) : ~rules[k].enabled
    /\ Len(buyRules) >= 2
    /\ BuyTriggered(buyRules[1], IterCurrent, IterPrevious)
    /\ Len(trades) > 0
    /\ Last(trades).decision = "BUY"
    /\ Last(trades).timestamp = IterCurrent.timestamp
    /\ Last(trades).stock = IterStock
    /\ Last(trades).ruleTriggered = buyRules[2].name

\* what a skipped BUY leaves alone
NothingBought ==
    /\ trades' = trades
    /\ cash' = cash
    /\ positions' = positions
    /\ response' = NoResponse

\* C9 as stated: when an enabled BUY rule fires for a stock without
\* position and the cash is below its cost, no trade is recorded, the cash
\* is unchanged and the stock stays without position.
C9_SkipWhenAnyUnaffordable ==
    [][(AtBuyWhileFlat /\ pc' = "sell"
            /\ \E k \in FiringBuys : cash < CostOf(k)) => NothingBought]_vars

\* C9 amended: when enabled BUY rules fire for a stock without position and
\* the cash is below the cost of every one of them, no trade is recorded,
\* the cash is unchanged, no error is answered and the stock stays without
\* position; its SELL rules then do nothing and the handler goes on to the
\* next stock or to the end of the bar.
C9_SkipWhenAllUnaffordable ==
    [][/\ (AtBuyWhileFlat /\ pc' = "sell"
            /\ FiringBuys # {}
            /\ \A k \in FiringBuys : cash < CostOf(k)) => NothingBought
       /\ (pc = "sell" /\ ~HasPosition(positions, IterStock)) =>
            /\ NothingBought
            /\ IF stockIdx + 1 < Len(stocks)
               THEN pc' = "buy" /\ stockIdx' = stockIdx + 1 /\ i' = i
               ELSE pc' = "sample"
      ]_vars

\* the handler has just skipped a BUY whose rule fired: the cash does not
\* cover it
C9_Witness ==
    /\ pc = "sell"
    /\ ~HasPosition(positions, IterStock)
    /\ \E k \in 1..Len(buyRules) :
          /\ BuyTriggered(buyRules[k], IterCurrent, IterPrevious)
          /\ cash < IterCurrent.price * buyRules[k].quantity

\* C10: the scenario ends with BUY at 97, SELL at 101 (pnl 40), BUY at 95,
\* SELL at 99 (pnl 40), cash 100080, 4 trades, 2 winning, 0 losing, total
\* pnl 80, a return of 0.08 percent and no drawdown.
C10_Scenario ==
    (IsScenario /\ pc = "done") =>
        /\ response.status = 200
        /\ [k \in 1..Len(trades) |-> <<trades[k].decision, trades[k].price>>]
              = << <<"BUY", 97>>, <<"SELL", 101>>, <<"BUY", 95>>, <<"SELL", 99>> >>
        /\ trades[2].pnl = 40
        /\ trades[4].pnl = 40
        /\ \A k \in 1..Len(trades) : trades[k].quantity = 10
        /\ cash = 100080
        /\ response.trades = trades
        /\ response.totalTrades = 4
        /\ response.winningTrades = 2
        /\ response.losingTrades = 0
        /\ response.totalPnL = 80
        /\ response.percentReturn = 8
        /\ response.maxDrawdown = 0

\* the scenario has run to its result
C10_Witness == IsScenario /\ Completed /\ Len(trades) = 4

\* the handler is at the SELL rules of a bar with a position in the stock
AtSellWhileHolding == pc = "sell" /\ HasPosition(positions, IterStock)

\* the price of the bar is at least percent above the entry price of the
\* open position
GainAtLeast(percent) ==
    LET entry == PositionOf(positions, IterStock).entryPrice
    IN 100 * (IterCurrent.price - entry) >= percent * entry

\* the price of the bar is at least percent below the entry price
LossAtLeast(percent) ==
    LET entry == PositionOf(positions, IterStock).entryPrice
    IN 100 * (IterCurrent.price - entry) <= -(percent * entry)

\* a SELL rule read as a threshold on the position's P&L percent, whatever
\* its metric
FiresOnPnL(rule) ==
    IF rule.changeType \in {"price_increase", "volume_increase"}
    THEN GainAtLeast(rule.changePercent)
    ELSE LossAtLeast(rule.changePercent)

\* a SELL price rule read as a threshold on the position's P&L percent, a
\* SELL volume rule as a threshold on the bar-over-bar volume change
FiresOnPnLOrVolume(rule) ==
    IF rule.changeType \in {"price_increase", "price_decrease"}
    THEN FiresOnPnL(rule)
    ELSE FiresOnBar(rule, IterCurrent, IterPrevious)

EnabledSells == {k \in 1..Len(rules) : rules[k].enabled /\ rules[k].decision = "SELL"}

SellAppended == Len(trades') = Len(trades) + 1 /\ Last(trades').decision = "SELL"

\* the step records the SELL of the first rule of firing, nothing if empty
SellsByFirst(firing) ==
    IF firing = {}
    THEN trades' = trades
    ELSE LET first == CHOOSE k \in firing : \A m \in firing : k <= m
         IN /\ SellAppended
            /\ Last(trades').stock = IterStock
            /\ Last(trades').price = IterCurrent.price
            /\ Last(trades').ruleTriggered = rules[first].name

\* C11 as stated: at the SELL rules of a bar, with a position open, the
\* position is sold by the first enabled SELL rule whose percent the
\* position's P&L percent against its entry price reaches (>= percent for an
\* increase rule, <= -percent for a decrease rule), price and volume rules
\* alike; no SELL is recorded when there is none.
C11_SellOnPnLWhateverMetric ==
    [][AtSellWhileHolding =>
        SellsByFirst({k \in EnabledSells : FiresOnPnL(rules[k])})]_vars

\* C11 amended: a SELL price rule fires on the position's P&L percent
\* against its entry price and never on the change from the previous bar; a
\* SELL volume rule fires on the bar-over-bar volume change.
C11_SellOnPnLForPriceRules ==
    [][AtSellWhileHolding =>
        SellsByFirst({k \in EnabledSells : FiresOnPnLOrVolume(rules[k])})]_vars

\* a take-profit rule has sold on a bar whose price is less than its percent
\* above the previous bar's
C11_Witness ==
    /\ pc = "sample"
    /\ Len(trades) > 0
    /\ Last(trades).decision = "SELL"
    /\ Last(trades).timestamp = IterCurrent.timestamp
    /\ \E k \in EnabledSells :
          /\ rules[k].name = Last(trades).ruleTriggered
          /\ rules[k].changeType = "price_increase"
          /\ ~ChangeAtLeast(IterCurrent.price, IterPrevious.price,
                            rules[k].changePercent)

EnabledBuys == {k \in 1..Len(rules) : rules[k].enabled /\ rules[k].decision = "BUY"}

\* C12: a BUY is recorded only at a bar i >= 1 and only for an enabled BUY
\* rule whose metric (the price for a price rule, the volume for a volume
\* rule) has changed from the previous bar by >= percent (increase rule) or
\* by <= -percent (decrease rule), equality included; for a stock without
\* position a BUY is recorded whenever such a rule's cost is covered, and
\* none when no rule fires.
C12_BuyOnBarChange ==
    [][/\ BuyAppended =>
            /\ i >= 1
            /\ \E k \in EnabledBuys :
                  /\ rules[k].name = Last(trades').ruleTriggered
                  /\ rules[k].quantity = Last(trades').quantity
                  /\ FiresOnBar(rules[k], IterCurrent, IterPrevious)
       /\ (AtBuyWhileFlat /\ pc' = "sell"
                /\ \E k \in FiringBuys : CostOf(k) <= cash) => BuyAppended
       /\ (AtBuyWhileFlat /\ pc' = "sell" /\ FiringBuys = {}) => trades' = trades
      ]_vars

\* a volume rule has bought on a bar whose price has not moved and whose
\* volume has risen by exactly the rule's percent
C12_Witness ==
    /\ pc = "sell"
    /\ Len(trades) > 0
    /\ Last(trades).decision = "BUY"
    /\ Last(trades).timestamp = IterCurrent.timestamp
    /\ IterCurrent.price = IterPrevious.price
    /\ \E k \in EnabledBuys :
          /\ rules[k].name = Last(trades).ruleTriggered
          /\ rules[k].changeType = "volume_increase"
          /\ 100 * (IterCurrent.volume - IterPrevious.volume)
                = rules[k].changePercent * IterPrevious.volume

RECURSIVE SumOfLast(_, _, _)
\* the sum of the w prices of series that end at the 0-based index asOf
SumOfLast(series, asOf, w) ==
    IF w = 0 THEN 0
    ELSE At(series, asOf).price + SumOfLast(series, asOf - 1, w - 1)

\* at the bar of the iteration the stock has longWindow samples and the mean
\* of its last shortWindow prices is below the mean of its last longWindow
\* prices
ShortBelowLong(params) ==
    /\ i + 1 >= params.longWindow
    /\ SumOfLast(stockPriceData[IterStock], i, params.shortWindow) * params.longWindow
          < SumOfLast(stockPriceData[IterStock], i, params.longWindow) * params.shortWindow

IsMeanReversal(rule) ==
    "pythonRuleType" \in DOMAIN rule /\ rule.pythonRuleType = "mean_reversal"

\* the enabled mean reversal BUY rules of the request that fire on the bar
CrossingBuys ==
    {k \in EnabledBuys :
        IsMeanReversal(rules[k]) /\ ShortBelowLong(rules[k].params)}

\* C13: a mean reversal BUY rule fires on a bar exactly when the stock has
\* at least longWindow samples and the mean of the last shortWindow prices
\* is below the mean of the last longWindow prices: for a stock without
\* position, when such a rule fires and the cash covers its cost a BUY is
\* recorded, and a BUY that names a mean reversal rule is recorded only on
\* such a bar.
C13_MeanReversalFires ==
    [][/\ (AtBuyWhileFlat /\ pc' = "sell"
            /\ \E k \in CrossingBuys : CostOf(k) <= cash) => BuyAppended
       /\ BuyAppended =>
            \A k \in EnabledBuys :
                (IsMeanReversal(rules[k])
                    /\ rules[k].name = Last(trades').ruleTriggered)
                    => k \in CrossingBuys
      ]_vars

\* the request passes validation and its enabled rules are all BUY rules
OnlyBuys ==
    Len(stocks) > 0 /\ EnabledBuys # {} /\ EnabledSells = {}

\* the request passes validation and its enabled rules are all SELL rules
OnlySells ==
    Len(stocks) > 0 /\ EnabledSells # {} /\ EnabledBuys = {}

\* the handler has not stopped short of its answer
NotStuck == pc = "done" \/ ENABLED Next

\* C14 as stated: with only BUY rules or only SELL rules enabled the
\* handler runs to its answer, which is a result with zero trades.
C14_OneSidedNoTrades ==
    (OnlyBuys \/ OnlySells) =>
        /\ NotStuck
        /\ pc = "done" =>
              /\ response.status = 200
              /\ response.totalTrades = 0
              /\ response.trades = <<>>

\* C14 amended: with only SELL rules enabled the handler runs to its answer,
\* a result with zero trades; with only BUY rules enabled it runs to its
\* answer as well, a result in which every stock has either no trade or one
\* BUY followed by its "End of Backtest" SELL, and no SELL of a rule.
C14_OneSidedRuns ==
    /\ OnlySells =>
          /\ NotStuck
          /\ trades = <<>>
          /\ pc = "done" =>
                /\ response.status = 200
                /\ response.totalTrades = 0
                /\ response.trades = <<>>
    /\ OnlyBuys =>
          /\ NotStuck
          /\ pc = "done" =>
                /\ response.status = 200
                /\ response.trades = trades
                /\ \A s \in Range(stocks) :
                      LET q == TradesOf(trades, s)
                      IN \/ q = <<>>
                         \/ /\ Len(q) = 2
                            /\ q[1].decision = "BUY"
                            /\ q[2].decision = "SELL"
                            /\ q[2].ruleTriggered = "End of Backtest"

\* a run with only SELL rules enabled has ended on a series on which one of
\* them would have sold a position bought at the first bar
C14_Witness ==
    /\ Completed
    /\ OnlySells
    /\ \E s \in Range(stocks) : \E j \in 1..(Len(stockPriceData[s]) - 1) :
          \E k \in EnabledSells :
             FiresOnBar(rules[k], At(stockPriceData[s], j),
                        At(stockPriceData[s], 0))

\* the request has no stock, no rule, or no enabled rule
Invalid ==
    \/ Len(stocks) = 0
    \/ Len(rules) = 0
    \/ \A k \in 1..Len(rules) : ~rules[k].enabled

\* a 400 response that carries an error message and no result
IsRejection(r) ==
    /\ r.status = 400
    /\ DOMAIN r = {"status", "error"}
    /\ r.error # ""

\* C15: a request without stock, without rule or without enabled rule is
\* answered 400 with an error message by both routes; the local engine takes
\* no simulation step (no rule split, no series, no ledger, no trade) and
\* the proxy route posts nothing to the backend.
C15_RejectedBeforeSimulation ==
    Invalid =>
        /\ pc \in {"validate", "done"}
        /\ pc = "done" \/ ENABLED Next
        /\ pc = "done" => IsRejection(response)
        /\ trades = <<>> /\ portfolioValues = <<>> /\ stockPriceData = <<>>
        /\ proxyPc \in {"validate", "done"}
        /\ proxyPc = "done" \/ ENABLED ProxyNext
        /\ proxyPc = "done" => IsRejection(proxyResponse)
        /\ forwarded = <<>>

\* both routes have rejected a request with a stock whose rules are all
\* disabled
C15_Witness ==
    /\ Len(stocks) > 0
    /\ Len(rules) > 0
    /\ Invalid
    /\ pc = "done"
    /\ proxyPc = "done"

\* the place of a stock in the request's list
StockIndex(s) == CHOOSE k \in 1..Len(stocks) : stocks[k] = s

\* the trades of one bar are in the order of the request's stocks
InStockOrder ==
    \A j, k \in 1..Len(trades) :
        (j < k /\ trades[j].timestamp = trades[k].timestamp
               /\ trades[k].timestamp # EndDate)
            => StockIndex(trades[j].stock) <= StockIndex(trades[k].stock)

\* C16: at every bar the stocks are taken one after another in the order of
\* the request (none skipped, none twice), every trade of the bar is of the
\* stock whose turn it is, and there is one cash balance: a BUY is decided
\* against the cash as the earlier stocks of the bar have left it, takes its
\* cost from it, and a SELL adds its proceeds to it.
C16_StocksInOrderOnOneBalance ==
    /\ []InStockOrder
    /\ [][/\ (pc = "validate" /\ pc' = "buy") => (stockIdx' = 0 /\ i' = 1)
          /\ (pc = "sample" /\ pc' = "buy") => (stockIdx' = 0 /\ i' = i + 1)
          /\ (pc \in {"buy", "sell"} /\ pc' = "buy") =>
                (stockIdx' = stockIdx + 1 /\ i' = i)
          /\ (pc \in {"buy", "sell"} /\ pc' = "sell") =>
                (pc = "buy" /\ stockIdx' = stockIdx /\ i' = i)
          /\ (pc \in {"buy", "sell"} /\ pc' = "sample") =>
                stockIdx = Len(stocks) - 1
          /\ (pc \in {"buy", "sell"} /\ Len(trades') = Len(trades) + 1) =>
                /\ Last(trades').stock = IterStock
                /\ Last(trades').timestamp = IterCurrent.timestamp
          /\ (AtBuyWhileFlat /\ pc' = "sell") =>
                (BuyAppended <=> \E k \in FiringBuys : CostOf(k) <= cash)
          /\ BuyAppended =>
                cash' = cash - Last(trades').price * Last(trades').quantity
          /\ (pc = "sell" /\ SellAppended) =>
                cash' = cash + Last(trades').price * Last(trades').quantity
          /\ (pc \in {"buy", "sell"} /\ trades' = trades) => cash' = cash
         ]_vars

\* on one bar the first stock of the request was sold and the second bought
\* at a cost which the cash before that sale did not cover
C16_Witness ==
    /\ pc = "sell"
    /\ Len(trades) >= 2
    /\ Last(trades).decision = "BUY"
    /\ Last(trades).stock = stocks[2]
    /\ trades[Len(trades) - 1].decision = "SELL"
    /\ trades[Len(trades) - 1].stock = stocks[1]
    /\ trades[Len(trades) - 1].timestamp = Last(trades).timestamp
    /\ trades[Len(trades) - 1].price * trades[Len(trades) - 1].quantity > cash

RECURSIVE NetCash(_, _)
\* what the trades of ts from index k on add to the cash: the proceeds of
\* the SELLs less the costs of the BUYs
NetCash(ts, k) ==
    IF k > Len(ts) THEN 0
    ELSE (IF ts[k].decision = "SELL" THEN 1 ELSE -1) * ts[k].price * ts[k].quantity
            + NetCash(ts, k + 1)

\* C17: portfolioValues and timestamps always have the same length; the
\* returned curve has at least 2 points, starts with (startDate,
\* initialCapital) and ends with (endDate, cash), the cash being what the
\* initial capital has become through all trades, liquidation included.
C17_CurveEnds ==
    /\ Len(portfolioValues) = Len(timestamps)
    /\ Completed =>
          /\ Len(response.portfolioValue) = Len(response.timestamps)
          /\ Len(response.portfolioValue) >= 2
          /\ response.portfolioValue[1] = initialCapital
          /\ response.timestamps[1] = StartDate
          /\ Last(response.portfolioValue) = cash
          /\ Last(response.timestamps) = EndDate
          /\ cash = initialCapital + NetCash(response.trades, 1)
          /\ \A s \in Range(stocks) : Len(TradesOf(response.trades, s)) % 2 = 0

\* a returned curve with periodic samples between its ends, which differ
C17_Witness ==
    /\ Completed
    /\ Len(response.portfolioValue) >= 4
    /\ Last(response.portfolioValue) # response.portfolioValue[1]
    /\ \E k \in 1..Len(trades) : trades[k].ruleTriggered = "End of Backtest"

\* the periodic samples of a returned curve: all but its two end points
PeriodicSamples == Len(response.portfolioValue) - 2

\* the bars the outer loop has processed: 1 to maxDataLength - 1
ProcessedBars == Max(0, maxDataLength - 1)

\* C18 as stated: whatever the length of the series, the periodic samples
\* are fewer than 2 * SampleCount and, once a bar is processed, fewer than
\* the processed bars.
C18_FewerSamplesThanBars ==
    Completed =>
        /\ PeriodicSamples < 2 * SampleCount
        /\ ProcessedBars >= 1 => PeriodicSamples < ProcessedBars

\* C18 amended: whatever the length N of the series, the periodic samples
\* are fewer than 2 * SampleCount; they are fewer than the processed bars
\* when N >= 2 * SampleCount, and every processed bar is sampled when N is
\* below that.
C18_BoundedSamples ==
    Completed =>
        /\ PeriodicSamples < 2 * SampleCount
        /\ PeriodicSamples <= ProcessedBars
        /\ maxDataLength >= 2 * SampleCount => PeriodicSamples < ProcessedBars
        /\ maxDataLength < 2 * SampleCount => PeriodicSamples = ProcessedBars

\* a run over more than 3 * SampleCount bars has returned a curve with fewer
\* periodic samples than bars
C18_Witness ==
    /\ Completed
    /\ maxDataLength > 3 * SampleCount
    /\ PeriodicSamples > 0
    /\ PeriodicSamples < ProcessedBars

\* the index in ts of the last trade before k of the stock of ts[k]; 0 if
\* there is none
PrecedingOfStock(ts, k) ==
    LET before == {j \in 1..(k - 1) : ts[j].stock = ts[k].stock}
    IN IF before = {} THEN 0
       ELSE CHOOSE j \in before : \A m \in before : m <= j

\* C19: no BUY of the log has a pnl field; every SELL, of a rule or forced,
\* has one, follows a BUY of its stock, sells that BUY's quantity and has
\* pnl = (its price - that BUY's price) * that BUY's quantity; the result
\* returns the log.
C19_SellPnL ==
    /\ \A k \in 1..Len(trades) :
          IF trades[k].decision = "BUY"
          THEN "pnl" \notin DOMAIN trades[k]
          ELSE LET b == PrecedingOfStock(trades, k)
               IN /\ "pnl" \in DOMAIN trades[k]
                  /\ b # 0
                  /\ trades[b].decision = "BUY"
                  /\ trades[k].quantity = trades[b].quantity
                  /\ trades[k].pnl =
                        (trades[k].price - trades[b].price) * trades[b].quantity
    /\ Completed => response.trades = trades

\* a returned log with a forced SELL and with a SELL of a rule whose own
\* quantity is not the position's, at a price other than the entry's
C19_Witness ==
    /\ Completed
    /\ \E k \in 1..Len(trades) : trades[k].ruleTriggered = "End of Backtest"
    /\ \E k \in 1..Len(trades) : \E r \in EnabledSells :
          /\ trades[k].ruleTriggered = rules[r].name
          /\ rules[r].quantity # trades[k].quantity
          /\ trades[k].pnl # 0

\* the indices of the SELL trades of ts
SellsOf(ts) == {k \in 1..Len(ts) : ts[k].decision = "SELL"}

\* C20: in the result totalTrades is the number of trades of the log, BUYs
\* and SELLs; winningTrades is the number of SELLs with pnl > 0 and
\* losingTrades the number of SELLs with pnl < 0; a SELL with pnl = 0 is in
\* neither, so that their sum is the number of SELLs less those.
C20_TradeCounts ==
    Completed =>
        LET sells == SellsOf(response.trades)
            wins == {k \in sells : response.trades[k].pnl > 0}
            losses == {k \in sells : response.trades[k].pnl < 0}
            evens == {k \in sells : response.trades[k].pnl = 0}
        IN /\ response.trades = trades
           /\ response.totalTrades = Len(response.trades)
           /\ response.winningTrades = Cardinality(wins)
           /\ response.losingTrades = Cardinality(losses)
           /\ response.winningTrades + response.losingTrades
                 = Cardinality(sells) - Cardinality(evens)
           /\ response.winningTrades + response.losingTrades <= Cardinality(sells)

\* a result with a SELL at pnl 0, forced, next to a SELL that won or lost
C20_Witness ==
    /\ Completed
    /\ \E k \in SellsOf(response.trades) :
          /\ response.trades[k].pnl = 0
          /\ response.trades[k].ruleTriggered = "End of Backtest"
    /\ response.winningTrades + response.losingTrades >= 1
    /\ response.totalTrades > response.winningTrades + response.losingTrades + 1

RECURSIVE PnLOfSells(_, _)
\* the sum of the pnl of the SELL trades of ts from index k on
PnLOfSells(ts, k) ==
    IF k > Len(ts) THEN 0
    ELSE (IF ts[k].decision = "SELL" THEN ts[k].pnl ELSE 0) + PnLOfSells(ts, k + 1)

\* C24: in a result the final cash less the initial capital is the sum of
\* the pnl of all SELL trades, which is the reported totalPnL; the reported
\* percentReturn is totalPnL / initialCapital * 100 at two decimals, and is
\* never of the sign opposite to totalPnL's.
C24_ReturnIsPnL ==
    Completed =>
        /\ cash - initialCapital = PnLOfSells(response.trades, 1)
        /\ response.totalPnL = cash - initialCapital
        /\ Last(response.portfolioValue) - response.portfolioValue[1]
              = response.totalPnL
        /\ response.percentReturn
              = RoundHundredths(response.totalPnL, initialCapital)
        /\ response.percentReturn > 0 => response.totalPnL > 0
        /\ response.percentReturn < 0 => response.totalPnL < 0
        /\ response.totalPnL > 0 => response.percentReturn >= 0
        /\ response.totalPnL < 0 => response.percentReturn <= 0

\* a result with a negative return, the loss taken by the liquidation
C24_Witness ==
    /\ Completed
    /\ response.percentReturn < 0
    /\ \E k \in SellsOf(response.trades) :
          /\ response.trades[k].ruleTriggered = "End of Backtest"
          /\ response.trades[k].pnl < 0

\* C25: a result has as many BUY trades as SELL trades, so that totalTrades
\* is even and winningTrades at most half of it, and the win rate the
\* results view shows is at most 50 percent (500 tenths).
C25_WinRateAtMostHalf ==
    Completed =>
        LET sells == SellsOf(response.trades)
            buys == (1..Len(response.trades)) \ sells
        IN /\ Cardinality(buys) = Cardinality(sells)
           /\ response.totalTrades = 2 * Cardinality(sells)
           /\ 2 * response.winningTrades <= response.totalTrades
           /\ winRate(response) <= 500

\* a result all of whose SELLs have won: the view shows 50.0
C25_Witness ==
    /\ Completed
    /\ response.totalTrades >= 4
    /\ 2 * response.winningTrades = response.totalTrades
    /\ winRate(response) = 500

\* every open position has the quantity of the last BUY of its stock, and
\* during the bars a stock has a position exactly when its last trade is a
\* BUY
WholePositions ==
    /\ \A k \in 1..Len(positions) :
          \E b \in 1..Len(trades) :
             /\ trades[b].decision = "BUY"
             /\ trades[b].stock = positions[k].stock
             /\ trades[b].quantity = positions[k].quantity
             /\ \A m \in (b + 1)..Len(trades) :
                   trades[m].stock = positions[k].stock => trades[m].decision = "SELL"
    /\ pc \in {"buy", "sell", "sample"} =>
          \A s \in Range(stocks) :
             HasPosition(positions, s) <=>
                (TradesOf(trades, s) # <<>> /\ Last(TradesOf(trades, s)).decision = "BUY")

\* C26: a SELL of a rule sells the quantity of the open position, whatever
\* the quantity of the rule, and leaves the stock without position; a forced
\* SELL sells the quantity of the position it closes; a position is never
\* anything but the whole quantity of the BUY that opened it.
C26_SellsWholePosition ==
    /\ []WholePositions
    /\ [][/\ (pc = "sell" /\ SellAppended) =>
                /\ Last(trades').quantity = PositionOf(positions, IterStock).quantity
                /\ ~HasPosition(positions', IterStock)
          /\ (pc = "close" /\ SellAppended) =>
                /\ Last(trades').stock = At(positions, closeIdx).stock
                /\ Last(trades').quantity = At(positions, closeIdx).quantity
          /\ SellAppended => pc \in {"sell", "close"}
         ]_vars

\* a rule whose quantity is below the position's has just sold all of it
C26_Witness ==
    /\ pc \in {"buy", "sample"}
    /\ Len(trades) > 0
    /\ Last(trades).decision = "SELL"
    /\ ~HasPosition(positions, Last(trades).stock)
    /\ \E r \in EnabledSells :
          /\ rules[r].name = Last(trades).ruleTriggered
          /\ rules[r].quantity < Last(trades).quantity

-----------------------------------------------------------------------------
(* C27 *)

\* the handler has passed the validation and generated the series
Generated == pc # "validate" /\ (pc = "done" => response.status = 200)

\* the minutes of the timeframes of the enabled rules
EnabledMinutes ==
    {getIntervalMinutes(TimeframeOf(rules[k])) :
        k \in {j \in 1..Len(rules) : rules[j].enabled}}

\* an enabled rule has one of the timeframes above the hour
HasCoarseRule ==
    \E k \in 1..Len(rules) :
        rules[k].enabled /\ TimeframeOf(rules[k]) \in {"4H", "1D", "1W"}

\* C27: the series are generated at the smaller of 60 minutes and the
\* smallest timeframe of the enabled rules, a timeframe the map does not
\* have counting as 60: the interval is one of 1, 5, 15, 30 and 60 minutes,
\* no enabled rule has a finer timeframe than it, it is 60 or the timeframe
\* of an enabled rule, and it is at most 60 for a rule of 4H, 1D or 1W.
C27_IntervalCappedAtHour ==
    Generated =>
        /\ minInterval \in {1, 5, 15, 30, 60}
        /\ \A m \in EnabledMinutes : minInterval <= m
        /\ minInterval = 60 \/ minInterval \in EnabledMinutes
        /\ (\A m \in EnabledMinutes : m >= 60) => minInterval = 60
        /\ HasCoarseRule => minInterval <= 60

\* a request whose enabled rules are all coarser than the hour has traded
\* on bars of 60 minutes
C27_Witness ==
    /\ Completed
    /\ HasCoarseRule
    /\ \A m \in EnabledMinutes : m > 60
    /\ minInterval = 60
    /\ Len(trades) > 0

-----------------------------------------------------------------------------
(* C30 *)

NoDuplicates(list) ==
    \A j \in 1..Len(list), k \in 1..Len(list) : list[j] = list[k] => j = k

\* where stock is in a list that has it once
PositionIn(list, stock) == CHOOSE k \in 1..Len(list) : list[k] = stock

\* after is before without stock: the other members are all there, once
\* each and in the order they had
RemovedFrom(before, after, stock) ==
    /\ ~(\E k \in 1..Len(after) : after[k] = stock)
    /\ Len(after) = Len(before) - 1
    /\ \A k \in 1..Len(before) :
          before[k] # stock => \E j \in 1..Len(after) : after[j] = before[k]
    /\ \A j \in 1..Len(after), k \in 1..Len(after) :
          j < k => PositionIn(before, after[j]) < PositionIn(before, after[k])

\* after is before with stock at its end
AppendedTo(before, after, stock) ==
    /\ Len(after) = Len(before) + 1
    /\ after[Len(after)] = stock
    /\ \A k \in 1..Len(before) : after[k] = before[k]

\* the stocks that can be toggled: the popular ones and the selected ones
Toggleable == Range(POPULAR_STOCKS) \cup Range(selectedStocks)

\* C30: whatever was toggled and added, the selection has no symbol twice;
\* toggling a selected stock gives the selection without it and toggling
\* an unselected stock gives the selection with it at the end, the other
\* stocks staying in their order.
C30_SelectionHasNoDuplicates ==
    /\ NoDuplicates(selectedStocks)
    /\ \A stock \in Toggleable :
          IF \E k \in 1..Len(selectedStocks) : selectedStocks[k] = stock
          THEN RemovedFrom(selectedStocks,
                           toggleStock(selectedStocks, stock), stock)
          ELSE AppendedTo(selectedStocks,
                          toggleStock(selectedStocks, stock), stock)

\* the stock selected at first was toggled off and on again after a popular
\* stock and a typed symbol were added, and a symbol already selected is in
\* the input in lower case
C30_Witness ==
    /\ selectedStocks = <<"GOOGL", "IBM", "AAPL">>
    /\ customStock = <<"A", "A", "P", "L">>

-----------------------------------------------------------------------------
(* C23 *)

\* the mean reversal rules of the rule list
MeanReversalRules ==
    {pageRules[k] : k \in {j \in 1..Len(pageRules) :
        "pythonRuleType" \in DOMAIN pageRules[j]
            /\ pageRules[j].pythonRuleType = "mean_reversal"}}

\* C23: every mean reversal rule the rule builder has added, whatever was
\* done to the two window inputs before, has a short window of at least 2
\* and a long window greater than the short one.
C23_WindowsOrdered ==
    \A rule \in MeanReversalRules :
        /\ rule.params.shortWindow >= 2
        /\ rule.params.longWindow > rule.params.shortWindow

-----------------------------------------------------------------------------
(* C28 *)

\* a step that sends a request
Sends == pending' > pending

\* the rule list has an enabled rule of the side
HasEnabled(decision) ==
    \E k \in 1..Len(pageRules) :
        pageRules[k].decision = decision /\ pageRules[k].enabled = TRUE

\* C28: the page sends a request only with at least one stock selected and
\* with an enabled BUY rule and an enabled SELL rule in the rule list, and
\* only while no run is loading: never are two requests pending.
C28_RequestsGated ==
    /\ [](pending <= 1 /\ (isLoading <=> pending = 1))
    /\ [][Sends =>
            /\ ~isLoading /\ pending = 0
            /\ Len(selectedStocks) >= 1
            /\ HasEnabled("BUY") /\ HasEnabled("SELL")]_vars

\* a request is pending for two stocks, the gate having failed before on a
\* disabled rule; the button is disabled now
C28_Witness ==
    /\ pending = 1 /\ isLoading
    /\ Len(selectedStocks) = 2
    /\ ~HasEnabled("SELL")
    /\ ~ENABLED runBacktest

-----------------------------------------------------------------------------
(* C29 *)

\* a run finishes with this step
Finishes == isLoading /\ ~isLoading'

\* C29: every run started from the page finishes, isLoading being false
\* then, with exactly one of results and error set: after a response that
\* is ok the results are set, the error is null and the results tab is the
\* active one; after a response that is not ok, or a rejected fetch, the
\* error is set and the results are null.
C29_RunsFinish ==
    /\ isLoading ~> ~isLoading
    /\ [][/\ Finishes => (pageResults' # Null) # (error' # Null)
          /\ Finishes => ResponseOk \/ ResponseNotOk \/ FetchRejected
          /\ ResponseOk =>
                /\ Finishes
                /\ pageResults' # Null /\ error' = Null
                /\ activeTab' = "results"
          /\ ResponseNotOk \/ FetchRejected =>
                /\ Finishes
                /\ error' # Null /\ pageResults' = Null]_vars

\* a run has failed after an earlier one had succeeded: the results tab is
\* still the active one, the results are gone and the error is set
C29_Witness ==
    /\ ~isLoading /\ pending = 0
    /\ activeTab = "results"
    /\ pageResults = Null
    /\ error # Null

====
